---- MODULE Spec2Model ----
(***************************************************************************)
(* Verification model of the dose-response curve-fitting demo              *)
(* (assets/js/models.js, assets/js/app.js, ddr-curve-fitting.js).          *)
(*                                                                         *)
(* JavaScript numbers are modelled as decimal floating-point values with   *)
(* three significant digits plus NaN and the two infinities.  Every        *)
(* arithmetic operator of the source becomes one rounded operation         *)
(* (Add, Sub, Mul, Div, Log10, Pow10, Pow), so that conversions such as    *)
(* log10 / 10^x are not the identity and NaN / Infinity propagate exactly  *)
(* as they do in the source.                                               *)
(***************************************************************************)
EXTENDS Integers, Sequences, FiniteSets, TLC

(***************************************************************************)
(* Function calls.  Invoke(f, args) is the call of the function named f    *)
(* with the argument list args, evaluated before the call as in the        *)
(* source.  A function value (a loop body, a sort key, a callback) is      *)
(* passed by its name and called with Invoke; name_(x, y) abbreviates      *)
(* Invoke("name", <<x, y>>), which equals name(x, y), for the functions    *)
(* that are called from many places.                                       *)
(***************************************************************************)
RECURSIVE Invoke(_, _)
Log10_(a) == Invoke("Log10", <<a>>)
Pow10_(a) == Invoke("Pow10", <<a>>)
Pow_(b, y) == Invoke("Pow", <<b, y>>)
hillFunction_(x, params) == Invoke("hillFunction", <<x, params>>)
callObjective_(obj, p) == Invoke("callObjective", <<obj, p>>)
projectToBounds_(p, fitType, config) == Invoke("projectToBounds", <<p, fitType, config>>)
nmToward_(centroid, coeff, pt) == Invoke("nmToward", <<centroid, coeff, pt>>)
nmStep_(fn, s) == Invoke("nmStep", <<fn, s>>)
fitCurve_(dp, type, algo, oldMetrics, rnd) == Invoke("fitCurve", <<dp, type, algo, oldMetrics, rnd>>)
calculateMetrics_(fittedCurve, sortedPoints, config, algo) ==
  Invoke("calculateMetrics", <<fittedCurve, sortedPoints, config, algo>>)
fitMonophasicForIC50_(sortedPoints, config, algo) ==
  Invoke("fitMonophasicForIC50", <<sortedPoints, config, algo>>)
getSortedDataPoints_(points) == Invoke("getSortedDataPoints", <<points>>)
objectiveOutcome_(in) == Invoke("objectiveOutcome", <<in>>)
gdOutcome_(in) == Invoke("gdOutcome", <<in>>)
nmOutcome_(in) == Invoke("nmOutcome", <<in>>)
case1Outcome_(in, draws) == Invoke("case1Outcome", <<in, draws>>)
modelOutcome_(in) == Invoke("modelOutcome", <<in>>)
guessOutcome_(in) == Invoke("guessOutcome", <<in>>)
roundTripOutcome_(in) == Invoke("roundTripOutcome", <<in>>)
meshOutcome_(in) == Invoke("meshOutcome", <<in>>)
projectOutcome_(in, sortedPoints) == Invoke("projectOutcome", <<in, sortedPoints>>)
computeGrittyGuess_(fitType, sortedPoints, config) ==
  Invoke("computeGrittyGuess", <<fitType, sortedPoints, config>>)
case1MeshPattern_(c, guess) == Invoke("case1MeshPattern", <<c, guess>>)
case1Pass_(in, run) == Invoke("case1Pass", <<in, run>>)
meshEval_(fitType, guess, sortedPoints, config, algo, rnd) ==
  Invoke("meshEval", <<fitType, guess, sortedPoints, config, algo, rnd>>)
finiteDiffGrad_(obj, p, eps) == Invoke("finiteDiffGrad", <<obj, p, eps>>)
backtrack_(env, st) == Invoke("backtrack", <<env, st>>)
psIteration_(env, st) == Invoke("psIteration", <<env, st>>)
gdFirstTrial_(env, alpha) == Invoke("gdFirstTrial", <<env, alpha>>)
fitCase1Strategy_(fitType, sortedPoints, config, algo, rnd) ==
  Invoke("fitCase1Strategy", <<fitType, sortedPoints, config, algo, rnd>>)
legacyFitCurve_(o) == Invoke("legacyFitCurve", <<o>>)
legacyPushed_(o, click) == Invoke("legacyPushed", <<o, click>>)
legacyHillFunction_(x, params) == Invoke("legacyHillFunction", <<x, params>>)
legacyNelderMead_(fn, initialSimplex, advancedConfig) ==
  Invoke("legacyNelderMead", <<fn, initialSimplex, advancedConfig>>)
legacyCalculateMetrics_(o) == Invoke("legacyCalculateMetrics", <<o>>)
createDataHash_(dataPoints) == Invoke("createDataHash", <<dataPoints>>)
randomInRange_(min, max, dataHash, offset) ==
  Invoke("randomInRange", <<min, max, dataHash, offset>>)
legacyFreshCurve_(o) == Invoke("legacyFreshCurve", <<o>>)

(***************************************************************************)
(* Number representation                                                   *)
(*   finite : [k |-> "fin", m |-> mantissa, e |-> exponent] = m * 10^e,    *)
(*            with 100 <= |m| <= 999, or m = 0 and e = 0                   *)
(*   NaN    : [k |-> "nan", m |-> 0, e |-> 0]                              *)
(*   +-Inf  : [k |-> "inf", m |-> +-1, e |-> 0]                            *)
(***************************************************************************)
NaN == [k |-> "nan", m |-> 0, e |-> 0]
PInf == [k |-> "inf", m |-> 1, e |-> 0]
NInf == [k |-> "inf", m |-> -1, e |-> 0]
Zero == [k |-> "fin", m |-> 0, e |-> 0]

\* largest and smallest decimal exponent of a finite double (1.8e308, 5e-324)
MaxExp10 == 308
MinExp10 == -324

IsNaN(a) == a.k = "nan"
IsInf(a) == a.k = "inf"
IsFin(a) == a.k = "fin"
isFinite(a) == a.k = "fin"

AbsI(n) == IF n < 0 THEN -n ELSE n
SgnI(n) == IF n < 0 THEN -1 ELSE IF n > 0 THEN 1 ELSE 0

P10 == <<1, 10, 100, 1000, 10000, 100000, 1000000, 10000000, 100000000, 1000000000>>

NDigits(a) ==
  CASE a < 10 -> 1 [] a >= 10 /\ a < 100 -> 2 [] a >= 100 /\ a < 1000 -> 3
    [] a >= 1000 /\ a < 10000 -> 4 [] a >= 10000 /\ a < 100000 -> 5
    [] a >= 100000 /\ a < 1000000 -> 6 [] a >= 1000000 /\ a < 10000000 -> 7
    [] a >= 10000000 /\ a < 100000000 -> 8
    [] a >= 100000000 /\ a < 1000000000 -> 9 [] OTHER -> 10

\* range check of a normalised mantissa / exponent pair (overflow, underflow)
Pack(sg, m, e) ==
  CASE e + 2 > MaxExp10 -> [k |-> "inf", m |-> sg, e |-> 0]
    [] e + 2 < MinExp10 -> Zero
    [] OTHER -> [k |-> "fin", m |-> sg * m, e |-> e]

\* sg * (q + r / (2 * half)) * 10^e rounded to the integer mantissa q or q + 1,
\* ties to even; sticky tells that digits below r were non-zero
RoundUp(sg, q, r, half, e, sticky) ==
  IF r > half \/ (r = half /\ (sticky \/ q % 2 = 1))
  THEN Pack(sg, IF q = 999 THEN 100 ELSE q + 1, IF q = 999 THEN e + 1 ELSE e)
  ELSE Pack(sg, q, e)

\* sg * a * 10^e for a > 0 of d digits, rounded to three significant digits
RoundDigits(sg, a, d, e, sticky) ==
  IF d <= 3 THEN Pack(sg, a * P10[4 - d], e - (3 - d))
  ELSE RoundUp(sg, a \div P10[d - 2], a % P10[d - 2], 5 * P10[d - 3], e + d - 3, sticky)

RoundAbs(sg, a, e, sticky) == RoundDigits(sg, a, NDigits(a), e, sticky)

\* n * 10^e rounded to three significant digits, ties to even
RoundS(n, e, sticky) ==
  IF n = 0 THEN Zero
  ELSE RoundAbs(IF n < 0 THEN -1 ELSE 1, IF n < 0 THEN -n ELSE n, e, sticky)

Num(n, e) == RoundS(n, e, FALSE)

One == [k |-> "fin", m |-> 100, e |-> -2]
Two == [k |-> "fin", m |-> 200, e |-> -2]
Ten == [k |-> "fin", m |-> 100, e |-> -1]
Half == [k |-> "fin", m |-> 500, e |-> -3]
Hundred == [k |-> "fin", m |-> 100, e |-> 0]

Neg(a) == [a EXCEPT !.m = -a.m]
Abs(a) == [a EXCEPT !.m = IF a.m < 0 THEN -a.m ELSE a.m]

\* a + b when an operand is NaN or infinite
AddSpecial(a, b) ==
  CASE IsNaN(a) \/ IsNaN(b) -> NaN
    [] IsInf(a) /\ IsInf(b) -> IF a.m = b.m THEN a ELSE NaN
    [] IsInf(a) /\ IsFin(b) -> a
    [] OTHER -> b

\* a + b
Add(a, b) ==
  CASE a.k # "fin" \/ b.k # "fin" -> AddSpecial(a, b)
    [] a.k = "fin" /\ b.k = "fin" /\ a.m = 0 -> b
    [] a.k = "fin" /\ b.k = "fin" /\ a.m # 0 /\ (b.m = 0 \/ a.e - b.e > 6) -> a
    [] a.k = "fin" /\ b.k = "fin" /\ a.m # 0 /\ b.m # 0 /\ b.e - a.e > 6 -> b
    [] OTHER -> RoundS(IF a.e < b.e THEN a.m + b.m * P10[b.e - a.e + 1]
                       ELSE a.m * P10[a.e - b.e + 1] + b.m,
                       IF a.e < b.e THEN a.e ELSE b.e, FALSE)

Sub(a, b) == Add(a, [b EXCEPT !.m = -b.m])

\* a * b when an operand is NaN or infinite
MulSpecial(a, b) ==
  CASE IsNaN(a) \/ IsNaN(b) \/ a.m = 0 \/ b.m = 0 -> NaN
    [] OTHER -> IF (a.m < 0) = (b.m < 0) THEN PInf ELSE NInf

\* a * b
Mul(a, b) ==
  IF a.k = "fin" /\ b.k = "fin" THEN RoundS(a.m * b.m, a.e + b.e, FALSE)
  ELSE MulSpecial(a, b)

\* a / b when an operand is NaN or infinite or b is 0
DivSpecial(a, b) ==
  CASE IsNaN(a) \/ IsNaN(b) \/ (IsInf(a) /\ IsInf(b)) \/ (a.m = 0 /\ b.m = 0) -> NaN
    [] IsFin(a) /\ IsInf(b) -> Zero
    [] OTHER -> IF (a.m < 0) = (b.m < 0) THEN PInf ELSE NInf

\* a / b
Div(a, b) ==
  IF a.k = "fin" /\ b.k = "fin" /\ b.m # 0
  THEN RoundS((IF (a.m < 0) = (b.m < 0) THEN 1 ELSE -1)
                * ((AbsI(a.m) * 100000) \div AbsI(b.m)),
              a.e - b.e - 5, (AbsI(a.m) * 100000) % AbsI(b.m) # 0)
  ELSE DivSpecial(a, b)

\* three-way comparison of two non-NaN numbers
Cmp(a, b) ==
  CASE a = b -> 0
    [] a # b /\ IsInf(a) -> a.m
    [] a # b /\ IsFin(a) /\ IsInf(b) -> -b.m
    [] a # b /\ IsFin(a) /\ IsFin(b) /\ SgnI(a.m) # SgnI(b.m) ->
         IF a.m < b.m THEN -1 ELSE 1
    [] a # b /\ IsFin(a) /\ IsFin(b) /\ SgnI(a.m) = SgnI(b.m) /\ a.e # b.e ->
         IF (a.e < b.e) = (a.m > 0) THEN -1 ELSE 1
    [] OTHER -> IF a.m < b.m THEN -1 ELSE 1

\* a < b, a <= b, a > b, a >= b, a === b: all false when an operand is NaN
Lt(a, b) == a.k # "nan" /\ b.k # "nan" /\ Cmp(a, b) < 0
Le(a, b) == a.k # "nan" /\ b.k # "nan" /\ Cmp(a, b) <= 0
Gt(a, b) == a.k # "nan" /\ b.k # "nan" /\ Cmp(a, b) > 0
Ge(a, b) == a.k # "nan" /\ b.k # "nan" /\ Cmp(a, b) >= 0
Eq(a, b) == a.k # "nan" /\ b.k # "nan" /\ a = b

\* Math.min, Math.max of two arguments
MathMin(a, b) ==
  CASE a.k = "nan" \/ b.k = "nan" -> NaN
    [] OTHER -> IF Cmp(a, b) <= 0 THEN a ELSE b
MathMax(a, b) ==
  CASE a.k = "nan" \/ b.k = "nan" -> NaN
    [] OTHER -> IF Cmp(a, b) >= 0 THEN a ELSE b

\* Math.round: the nearest integer, ties towards +Infinity
MathRound(a) ==
  CASE a.k # "fin" \/ a.e >= 0 -> a
    [] a.k = "fin" /\ a.e < -9 -> Zero
    [] OTHER -> RoundS((2 * a.m + P10[1 - a.e]) \div (2 * P10[1 - a.e]), 0, FALSE)

\* a || b on numbers: b when a is 0 or NaN
OrElse(a, b) == IF a.k = "nan" \/ (a.k = "fin" /\ a.m = 0) THEN b ELSE a
LogTab ==
  <<
     0, 4321, 8600, 12837, 17033, 21189, 25306, 29384, 33424, 37426,
     41393, 45323, 49218, 53078, 56905, 60698, 64458, 68186, 71882, 75547,
     79181, 82785, 86360, 89905, 93422, 96910, 100371, 103804, 107210, 110590,
     113943, 117271, 120574, 123852, 127105, 130334, 133539, 136721, 139879, 143015,
     146128, 149219, 152288, 155336, 158362, 161368, 164353, 167317, 170262, 173186,
     176091, 178977, 181844, 184691, 187521, 190332, 193125, 195900, 198657, 201397,
     204120, 206826, 209515, 212188, 214844, 217484, 220108, 222716, 225309, 227887,
     230449, 232996, 235528, 238046, 240549, 243038, 245513, 247973, 250420, 252853,
     255273, 257679, 260071, 262451, 264818, 267172, 269513, 271842, 274158, 276462,
     278754, 281033, 283301, 285557, 287802, 290035, 292256, 294466, 296665, 298853,
     301030, 303196, 305351, 307496, 309630, 311754, 313867, 315970, 318063, 320146,
     322219, 324282, 326336, 328380, 330414, 332438, 334454, 336460, 338456, 340444,
     342423, 344392, 346353, 348305, 350248, 352183, 354108, 356026, 357935, 359835,
     361728, 363612, 365488, 367356, 369216, 371068, 372912, 374748, 376577, 378398,
     380211, 382017, 383815, 385606, 387390, 389166, 390935, 392697, 394452, 396199,
     397940, 399674, 401401, 403121, 404834, 406540, 408240, 409933, 411620, 413300,
     414973, 416641, 418301, 419956, 421604, 423246, 424882, 426511, 428135, 429752,
     431364, 432969, 434569, 436163, 437751, 439333, 440909, 442480, 444045, 445604,
     447158, 448706, 450249, 451786, 453318, 454845, 456366, 457882, 459392, 460898,
     462398, 463893, 465383, 466868, 468347, 469822, 471292, 472756, 474216, 475671,
     477121, 478566, 480007, 481443, 482874, 484300, 485721, 487138, 488551, 489958,
     491362, 492760, 494155, 495544, 496930, 498311, 499687, 501059, 502427, 503791,
     505150, 506505, 507856, 509203, 510545, 511883, 513218, 514548, 515874, 517196,
     518514, 519828, 521138, 522444, 523746, 525045, 526339, 527630, 528917, 530200,
     531479, 532754, 534026, 535294, 536558, 537819, 539076, 540329, 541579, 542825,
     544068, 545307, 546543, 547775, 549003, 550228, 551450, 552668, 553883, 555094,
     556303, 557507, 558709, 559907, 561101, 562293, 563481, 564666, 565848, 567026,
     568202, 569374, 570543, 571709, 572872, 574031, 575188, 576341, 577492, 578639,
     579784, 580925, 582063, 583199, 584331, 585461, 586587, 587711, 588832, 589950,
     591065, 592177, 593286, 594393, 595496, 596597, 597695, 598791, 599883, 600973,
     602060, 603144, 604226, 605305, 606381, 607455, 608526, 609594, 610660, 611723,
     612784, 613842, 614897, 615950, 617000, 618048, 619093, 620136, 621176, 622214,
     623249, 624282, 625312, 626340, 627366, 628389, 629410, 630428, 631444, 632457,
     633468, 634477, 635484, 636488, 637490, 638489, 639486, 640481, 641474, 642465,
     643453, 644439, 645422, 646404, 647383, 648360, 649335, 650308, 651278, 652246,
     653213, 654177, 655138, 656098, 657056, 658011, 658965, 659916, 660865, 661813,
     662758, 663701, 664642, 665581, 666518, 667453, 668386, 669317, 670246, 671173,
     672098, 673021, 673942, 674861, 675778, 676694, 677607, 678518, 679428, 680336,
     681241, 682145, 683047, 683947, 684845, 685742, 686636, 687529, 688420, 689309,
     690196, 691081, 691965, 692847, 693727, 694605, 695482, 696356, 697229, 698101,
     698970, 699838, 700704, 701568, 702431, 703291, 704151, 705008, 705864, 706718,
     707570, 708421, 709270, 710117, 710963, 711807, 712650, 713491, 714330, 715167,
     716003, 716838, 717671, 718502, 719331, 720159, 720986, 721811, 722634, 723456,
     724276, 725095, 725912, 726727, 727541, 728354, 729165, 729974, 730782, 731589,
     732394, 733197, 733999, 734800, 735599, 736397, 737193, 737987, 738781, 739572,
     740363, 741152, 741939, 742725, 743510, 744293, 745075, 745855, 746634, 747412,
     748188, 748963, 749736, 750508, 751279, 752048, 752816, 753583, 754348, 755112,
     755875, 756636, 757396, 758155, 758912, 759668, 760422, 761176, 761928, 762679,
     763428, 764176, 764923, 765669, 766413, 767156, 767898, 768638, 769377, 770115,
     770852, 771587, 772322, 773055, 773786, 774517, 775246, 775974, 776701, 777427,
     778151, 778874, 779596, 780317, 781037, 781755, 782473, 783189, 783904, 784617,
     785330, 786041, 786751, 787460, 788168, 788875, 789581, 790285, 790988, 791691,
     792392, 793092, 793790, 794488, 795185, 795880, 796574, 797268, 797960, 798651,
     799341, 800029, 800717, 801404, 802089, 802774, 803457, 804139, 804821, 805501,
     806180, 806858, 807535, 808211, 808886, 809560, 810233, 810904, 811575, 812245,
     812913, 813581, 814248, 814913, 815578, 816241, 816904, 817565, 818226, 818885,
     819544, 820201, 820858, 821514, 822168, 822822, 823474, 824126, 824776, 825426,
     826075, 826723, 827369, 828015, 828660, 829304, 829947, 830589, 831230, 831870,
     832509, 833147, 833784, 834421, 835056, 835691, 836324, 836957, 837588, 838219,
     838849, 839478, 840106, 840733, 841359, 841985, 842609, 843233, 843855, 844477,
     845098, 845718, 846337, 846955, 847573, 848189, 848805, 849419, 850033, 850646,
     851258, 851870, 852480, 853090, 853698, 854306, 854913, 855519, 856124, 856729,
     857332, 857935, 858537, 859138, 859739, 860338, 860937, 861534, 862131, 862728,
     863323, 863917, 864511, 865104, 865696, 866287, 866878, 867467, 868056, 868644,
     869232, 869818, 870404, 870989, 871573, 872156, 872739, 873321, 873902, 874482,
     875061, 875640, 876218, 876795, 877371, 877947, 878522, 879096, 879669, 880242,
     880814, 881385, 881955, 882525, 883093, 883661, 884229, 884795, 885361, 885926,
     886491, 887054, 887617, 888179, 888741, 889302, 889862, 890421, 890980, 891537,
     892095, 892651, 893207, 893762, 894316, 894870, 895423, 895975, 896526, 897077,
     897627, 898176, 898725, 899273, 899821, 900367, 900913, 901458, 902003, 902547,
     903090, 903633, 904174, 904716, 905256, 905796, 906335, 906874, 907411, 907949,
     908485, 909021, 909556, 910091, 910624, 911158, 911690, 912222, 912753, 913284,
     913814, 914343, 914872, 915400, 915927, 916454, 916980, 917506, 918030, 918555,
     919078, 919601, 920123, 920645, 921166, 921686, 922206, 922725, 923244, 923762,
     924279, 924796, 925312, 925828, 926342, 926857, 927370, 927883, 928396, 928908,
     929419, 929930, 930440, 930949, 931458, 931966, 932474, 932981, 933487, 933993,
     934498, 935003, 935507, 936011, 936514, 937016, 937518, 938019, 938520, 939020,
     939519, 940018, 940516, 941014, 941511, 942008, 942504, 943000, 943495, 943989,
     944483, 944976, 945469, 945961, 946452, 946943, 947434, 947924, 948413, 948902,
     949390, 949878, 950365, 950851, 951338, 951823, 952308, 952792, 953276, 953760,
     954243, 954725, 955207, 955688, 956168, 956649, 957128, 957607, 958086, 958564,
     959041, 959518, 959995, 960471, 960946, 961421, 961895, 962369, 962843, 963316,
     963788, 964260, 964731, 965202, 965672, 966142, 966611, 967080, 967548, 968016,
     968483, 968950, 969416, 969882, 970347, 970812, 971276, 971740, 972203, 972666,
     973128, 973590, 974051, 974512, 974972, 975432, 975891, 976350, 976808, 977266,
     977724, 978181, 978637, 979093, 979548, 980003, 980458, 980912, 981366, 981819,
     982271, 982723, 983175, 983626, 984077, 984527, 984977, 985426, 985875, 986324,
     986772, 987219, 987666, 988113, 988559, 989005, 989450, 989895, 990339, 990783,
     991226, 991669, 992111, 992554, 992995, 993436, 993877, 994317, 994757, 995196,
     995635, 996074, 996512, 996949, 997386, 997823, 998259, 998695, 999131, 999565
  >>

PowTab ==
  <<
     100000, 100231, 100462, 100693, 100925, 101158, 101391, 101625, 101859, 102094,
     102329, 102565, 102802, 103039, 103276, 103514, 103753, 103992, 104232, 104472,
     104713, 104954, 105196, 105439, 105682, 105925, 106170, 106414, 106660, 106905,
     107152, 107399, 107647, 107895, 108143, 108393, 108643, 108893, 109144, 109396,
     109648, 109901, 110154, 110408, 110662, 110917, 111173, 111429, 111686, 111944,
     112202, 112460, 112720, 112980, 113240, 113501, 113763, 114025, 114288, 114551,
     114815, 115080, 115345, 115611, 115878, 116145, 116413, 116681, 116950, 117220,
     117490, 117761, 118032, 118304, 118577, 118850, 119124, 119399, 119674, 119950,
     120226, 120504, 120781, 121060, 121339, 121619, 121899, 122180, 122462, 122744,
     123027, 123310, 123595, 123880, 124165, 124451, 124738, 125026, 125314, 125603,
     125893, 126183, 126474, 126765, 127057, 127350, 127644, 127938, 128233, 128529,
     128825, 129122, 129420, 129718, 130017, 130317, 130617, 130918, 131220, 131522,
     131826, 132130, 132434, 132739, 133045, 133352, 133660, 133968, 134276, 134586,
     134896, 135207, 135519, 135831, 136144, 136458, 136773, 137088, 137404, 137721,
     138038, 138357, 138676, 138995, 139316, 139637, 139959, 140281, 140605, 140929,
     141254, 141579, 141906, 142233, 142561, 142889, 143219, 143549, 143880, 144212,
     144544, 144877, 145211, 145546, 145881, 146218, 146555, 146893, 147231, 147571,
     147911, 148252, 148594, 148936, 149279, 149624, 149968, 150314, 150661, 151008,
     151356, 151705, 152055, 152405, 152757, 153109, 153462, 153815, 154170, 154525,
     154882, 155239, 155597, 155955, 156315, 156675, 157036, 157398, 157761, 158125,
     158489, 158855, 159221, 159588, 159956, 160325, 160694, 161065, 161436, 161808,
     162181, 162555, 162930, 163305, 163682, 164059, 164437, 164816, 165196, 165577,
     165959, 166341, 166725, 167109, 167494, 167880, 168267, 168655, 169044, 169434,
     169824, 170216, 170608, 171002, 171396, 171791, 172187, 172584, 172982, 173380,
     173780, 174181, 174582, 174985, 175388, 175792, 176198, 176604, 177011, 177419,
     177828, 178238, 178649, 179061, 179473, 179887, 180302, 180717, 181134, 181552,
     181970, 182390, 182810, 183231, 183654, 184077, 184502, 184927, 185353, 185780,
     186209, 186638, 187068, 187499, 187932, 188365, 188799, 189234, 189671, 190108,
     190546, 190985, 191426, 191867, 192309, 192752, 193197, 193642, 194089, 194536,
     194984, 195434, 195884, 196336, 196789, 197242, 197697, 198153, 198609, 199067,
     199526, 199986, 200447, 200909, 201372, 201837, 202302, 202768, 203236, 203704,
     204174, 204644, 205116, 205589, 206063, 206538, 207014, 207491, 207970, 208449,
     208930, 209411, 209894, 210378, 210863, 211349, 211836, 212324, 212814, 213304,
     213796, 214289, 214783, 215278, 215774, 216272, 216770, 217270, 217771, 218273,
     218776, 219280, 219786, 220293, 220800, 221309, 221820, 222331, 222844, 223357,
     223872, 224388, 224905, 225424, 225944, 226464, 226986, 227510, 228034, 228560,
     229087, 229615, 230144, 230675, 231206, 231739, 232274, 232809, 233346, 233884,
     234423, 234963, 235505, 236048, 236592, 237137, 237684, 238232, 238781, 239332,
     239883, 240436, 240991, 241546, 242103, 242661, 243220, 243781, 244343, 244906,
     245471, 246037, 246604, 247172, 247742, 248313, 248886, 249459, 250035, 250611,
     251189, 251768, 252348, 252930, 253513, 254097, 254683, 255270, 255859, 256448,
     257040, 257632, 258226, 258821, 259418, 260016, 260615, 261216, 261818, 262422,
     263027, 263633, 264241, 264850, 265461, 266073, 266686, 267301, 267917, 268534,
     269153, 269774, 270396, 271019, 271644, 272270, 272898, 273527, 274157, 274789,
     275423, 276058, 276694, 277332, 277971, 278612, 279254, 279898, 280543, 281190,
     281838, 282488, 283139, 283792, 284446, 285102, 285759, 286418, 287078, 287740,
     288403, 289068, 289734, 290402, 291072, 291743, 292415, 293089, 293765, 294442,
     295121, 295801, 296483, 297167, 297852, 298538, 299226, 299916, 300608, 301301,
     301995, 302691, 303389, 304089, 304789, 305492, 306196, 306902, 307610, 308319,
     309030, 309742, 310456, 311172, 311889, 312608, 313329, 314051, 314775, 315500,
     316228, 316957, 317687, 318420, 319154, 319890, 320627, 321366, 322107, 322849,
     323594, 324340, 325087, 325837, 326588, 327341, 328095, 328852, 329610, 330370,
     331131, 331894, 332660, 333426, 334195, 334965, 335738, 336512, 337287, 338065,
     338844, 339625, 340408, 341193, 341979, 342768, 343558, 344350, 345144, 345939,
     346737, 347536, 348337, 349140, 349945, 350752, 351560, 352371, 353183, 353997,
     354813, 355631, 356451, 357273, 358096, 358922, 359749, 360579, 361410, 362243,
     363078, 363915, 364754, 365595, 366438, 367282, 368129, 368978, 369828, 370681,
     371535, 372392, 373250, 374111, 374973, 375837, 376704, 377572, 378443, 379315,
     380189, 381066, 381944, 382825, 383707, 384592, 385478, 386367, 387258, 388150,
     389045, 389942, 390841, 391742, 392645, 393550, 394457, 395367, 396278, 397192,
     398107, 399025, 399945, 400867, 401791, 402717, 403645, 404576, 405509, 406443,
     407380, 408319, 409261, 410204, 411150, 412098, 413048, 414000, 414954, 415911,
     416869, 417830, 418794, 419759, 420727, 421697, 422669, 423643, 424620, 425598,
     426580, 427563, 428549, 429536, 430527, 431519, 432514, 433511, 434510, 435512,
     436516, 437522, 438531, 439542, 440555, 441570, 442588, 443609, 444631, 445656,
     446684, 447713, 448745, 449780, 450817, 451856, 452898, 453942, 454988, 456037,
     457088, 458142, 459198, 460257, 461318, 462381, 463447, 464515, 465586, 466659,
     467735, 468813, 469894, 470977, 472063, 473151, 474242, 475335, 476431, 477529,
     478630, 479733, 480839, 481948, 483059, 484172, 485289, 486407, 487528, 488652,
     489779, 490908, 492040, 493174, 494311, 495450, 496592, 497737, 498884, 500035,
     501187, 502343, 503501, 504661, 505825, 506991, 508159, 509331, 510505, 511682,
     512861, 514044, 515229, 516416, 517607, 518800, 519996, 521195, 522396, 523600,
     524807, 526017, 527230, 528445, 529663, 530884, 532108, 533335, 534564, 535797,
     537032, 538270, 539511, 540754, 542001, 543250, 544503, 545758, 547016, 548277,
     549541, 550808, 552077, 553350, 554626, 555904, 557186, 558470, 559758, 561048,
     562341, 563638, 564937, 566239, 567545, 568853, 570164, 571479, 572796, 574116,
     575440, 576766, 578096, 579429, 580764, 582103, 583445, 584790, 586138, 587489,
     588844, 590201, 591562, 592925, 594292, 595662, 597035, 598412, 599791, 601174,
     602560, 603949, 605341, 606736, 608135, 609537, 610942, 612350, 613762, 615177,
     616595, 618016, 619441, 620869, 622300, 623735, 625173, 626614, 628058, 629506,
     630957, 632412, 633870, 635331, 636796, 638263, 639735, 641210, 642688, 644169,
     645654, 647143, 648634, 650130, 651628, 653131, 654636, 656145, 657658, 659174,
     660693, 662217, 663743, 665273, 666807, 668344, 669885, 671429, 672977, 674528,
     676083, 677642, 679204, 680769, 682339, 683912, 685488, 687068, 688652, 690240,
     691831, 693426, 695024, 696627, 698232, 699842, 701455, 703072, 704693, 706318,
     707946, 709578, 711214, 712853, 714496, 716143, 717794, 719449, 721107, 722770,
     724436, 726106, 727780, 729458, 731139, 732825, 734514, 736207, 737904, 739605,
     741310, 743019, 744732, 746449, 748170, 749894, 751623, 753356, 755092, 756833,
     758578, 760326, 762079, 763836, 765597, 767361, 769130, 770903, 772681, 774462,
     776247, 778037, 779830, 781628, 783430, 785236, 787046, 788860, 790679, 792501,
     794328, 796159, 797995, 799834, 801678, 803526, 805378, 807235, 809096, 810961,
     812831, 814704, 816582, 818465, 820352, 822243, 824138, 826038, 827942, 829851,
     831764, 833681, 835603, 837529, 839460, 841395, 843335, 845279, 847227, 849180,
     851138, 853100, 855067, 857038, 859014, 860994, 862979, 864968, 866962, 868960,
     870964, 872971, 874984, 877001, 879023, 881049, 883080, 885116, 887156, 889201,
     891251, 893305, 895365, 897429, 899498, 901571, 903649, 905733, 907821, 909913,
     912011, 914113, 916220, 918333, 920450, 922571, 924698, 926830, 928966, 931108,
     933254, 935406, 937562, 939723, 941890, 944061, 946237, 948418, 950605, 952796,
     954993, 957194, 959401, 961612, 963829, 966051, 968278, 970510, 972747, 974990,
     977237, 979490, 981748, 984011, 986279, 988553, 990832, 993116, 995405, 997700
  >>
\* Math.log10: log10(m/100) from LogTab (units of 1e-6) plus the exponent
Log10(a) ==
  CASE a.k = "fin" /\ a.m > 0 -> RoundS((a.e + 2) * 1000000 + LogTab[a.m - 99], -6, FALSE)
    [] a.k = "fin" /\ a.m = 0 -> NInf
    [] a.k = "inf" /\ a.m > 0 -> PInf
    [] OTHER -> NaN

\* Math.pow(10, a) for finite non-zero a with -7 < a.e < 1: 10^integer part
\* times 10^fraction (PowTab on the first three decimals of the fraction,
\* first-order term for the rest)
Pow10Fin(a) ==
  LET lu == a.m * P10[a.e + 7]
      fr == lu % 1000000
      base == PowTab[(fr \div 1000) + 1]
  IN RoundS(base + (((base \div 100) * (((fr % 1000) * 2303) \div 100)) \div 100000),
            (lu \div 1000000) - 5, FALSE)

\* Math.pow(10, a)
Pow10(a) ==
  CASE a.k = "fin" /\ a.m # 0 /\ a.e > -7 /\ a.e < 1 -> Pow10Fin(a)
    [] a.k = "fin" /\ (a.m = 0 \/ a.e <= -7) -> One
    [] a.k = "fin" /\ a.m # 0 /\ a.e >= 1 -> IF a.m > 0 THEN PInf ELSE Zero
    [] a.k = "inf" -> IF a.m > 0 THEN PInf ELSE Zero
    [] OTHER -> NaN

IsIntNum(a) ==
  IsFin(a) /\ (a.m = 0 \/ a.e >= 0 \/ (a.e = -1 /\ a.m % 10 = 0) \/ (a.e = -2 /\ a.m % 100 = 0))
IsOddNum(a) ==
  /\ IsFin(a)
  /\ \/ (a.e = 0 /\ a.m % 2 = 1)
     \/ (a.e = -1 /\ a.m % 10 = 0 /\ (a.m \div 10) % 2 = 1)
     \/ (a.e = -2 /\ a.m % 100 = 0 /\ (a.m \div 100) % 2 = 1)

\* Math.pow(b, y) outside the common case of finite b > 0 and finite y
PowSpecial(b, y) ==
  CASE IsNaN(y) -> NaN
    [] IsFin(y) /\ y.m = 0 -> One
    [] ~IsNaN(y) /\ ~(IsFin(y) /\ y.m = 0) /\ IsNaN(b) -> NaN
    [] IsInf(y) /\ ~IsNaN(b) ->
         IF Cmp(Abs(b), One) = 0 THEN NaN
         ELSE IF (Cmp(Abs(b), One) > 0) = (y.m > 0) THEN PInf ELSE Zero
    [] IsFin(y) /\ y.m # 0 /\ IsInf(b) ->
         IF y.m > 0 THEN (IF b.m < 0 /\ IsOddNum(y) THEN NInf ELSE PInf) ELSE Zero
    [] IsFin(y) /\ y.m # 0 /\ IsFin(b) /\ b.m = 0 -> IF y.m > 0 THEN Zero ELSE PInf
    [] IsFin(y) /\ y.m # 0 /\ IsFin(b) /\ b.m < 0 /\ ~IsIntNum(y) -> NaN
    [] OTHER -> IF IsOddNum(y) THEN Neg(Pow10_(Mul(y, Log10_(Abs(b)))))
                ELSE Pow10_(Mul(y, Log10_(Abs(b))))

\* Math.pow(b, y)
Pow(b, y) ==
  CASE y = Two -> Mul(b, b)
    [] y # Two /\ b.k = "fin" /\ b.m > 0 /\ y.k = "fin" /\ y.m # 0 -> Pow10_(Mul(y, Log10_(b)))
    [] OTHER -> PowSpecial(b, y)

(***************************************************************************)
(* Configuration (window.DDRConfig).  The flat legacy keys read by the     *)
(* fallback chains (config.huberDelta, config.minPointsForFit, ...) are    *)
(* absent from DDRConfig, so each chain is "nested value || literal".      *)
(***************************************************************************)
DDRConfig ==
  [fitting |-> [minPointsForFit |-> 5, emaxMode |-> "fromCurveAtMax"],
   bounds |-> [eInf |-> [min |-> Zero, max |-> One],
               hillSlope |-> [min |-> Zero, max |-> Num(5, 0)],
               ec50 |-> [min |-> Num(-8, 0), max |-> Num(8, 0)]],
   optimizer |-> [maxIterations |-> 100000,
                  convergenceTolerance |-> Num(1, -6),
                  maxGDIter |-> 200,
                  gdAlpha |-> One,
                  gdEps |-> Num(1, -6),
                  gdBacktrackingMax |-> 10,
                  improvementTol |-> Num(1, -6)],
   robust |-> [huberDelta |-> Num(5, -2),
               weights |-> [endpoints |-> Ten, midpoint |-> Ten,
                            enableMidpointForMonophasic |-> TRUE]],
   mesh |-> [densitiesMono |-> <<2, 10, 5>>,
             densitiesBiphasic |-> <<2, 10, 5, 2, 10, 5>>,
             stepScale |-> Half,
             span |-> One,
             precision |-> Num(1, -4),
             maxCandidates |-> 5000],
   initialParams |-> [jitter |-> [eInf |-> Num(2, -2), other |-> Num(1, -1)]]]

\* a || b on integers (0 is falsy)
OrElseI(a, b) == IF a = 0 THEN b ELSE a

\* Statements run in order: eager(<<s1, ..., sn>>, e) evaluates s1 to sn, in
\* this order, and then e.
eager(v, e) == CASE v = v -> e

(***************************************************************************)
(* Loops.  TLC evaluates definitions on demand, so a loop written as a     *)
(* plain recursion nests one pending evaluation per pass.  The operators   *)
(* below run the passes of a loop in order and keep the nesting            *)
(* logarithmic in their number.  The loop body is the function named step  *)
(* (or body); env holds the variables of the enclosing function that the   *)
(* body reads.                                                             *)
(***************************************************************************)
\* the array with the elements f[1], ..., f[n], all evaluated
Array(f) == <<>> \o f

\* 2^k passes of step from st on, or fewer when a pass sets done
RECURSIVE block(_, _, _, _)
block(step, env, st, k) ==
  CASE st.done -> st
    [] ~st.done /\ k = 0 -> Invoke(step, <<env, st>>)
    [] OTHER -> block(step, env, block(step, env, st, k - 1), k - 1)

\* while (!st.done) st = step(env, st), run in blocks of 2^k, 2^(k+1), ... passes
RECURSIVE iterateFrom(_, _, _, _)
iterateFrom(step, env, st, k) ==
  CASE st.done -> st
    [] OTHER -> iterateFrom(step, env, block(step, env, st, k), k + 1)

iterate(step, env, st) == iterateFrom(step, env, st, 0)


\* for (i = lo; i <= hi; i++) acc = body(env, acc, i), evaluated by halving,
\* the lower half before the upper half
RECURSIVE forRange(_, _, _, _, _)
forRange(body, env, acc, lo, hi) ==
  IF lo > hi THEN acc
  ELSE IF lo = hi THEN Invoke(body, <<env, acc, lo>>)
  ELSE LET left == forRange(body, env, acc, lo, (lo + hi) \div 2)
       IN eager(left, forRange(body, env, left, ((lo + hi) \div 2) + 1, hi))

(***************************************************************************)
(* Model functions and losses (models.js)                                  *)
(***************************************************************************)
\* the curve without its plateau: 1 / (1 + 10^(hs * (logX - logEC50)))
hillFunctionNoPlateau(x, params) ==
  LET hs == params[1]
      ec50 == params[3]
      logX == Log10_(x)
      logEC50 == Log10_(ec50)
      exponent == Mul(hs, Sub(logX, logEC50))
      power == Pow10_(exponent)
      denominator == Add(One, power)
  IN eager(<<logX, logEC50, exponent, power, denominator>>, Div(One, denominator))

hillFunction(x, params) ==
  LET hs == params[1]
      eInf == params[2]
      ec50 == params[3]
      logX == Log10_(x)
      logEC50 == Log10_(ec50)
      exponent == Mul(hs, Sub(logX, logEC50))
      power == Pow10_(exponent)
      denominator == Add(One, power)
  IN eager(<<logX, logEC50, exponent, power, denominator>>,
           Add(eInf, Div(Sub(One, eInf), denominator)))

biphasicFunction(x, params) ==
  LET phase1 == hillFunction_(x, <<params[1], params[2], params[3]>>)
      phase2 == hillFunction_(x, <<params[4], params[5], params[6]>>)
  IN eager(<<phase1, phase2>>, Mul(phase1, phase2))

\* huberLoss without the factor one half in the quadratic branch
huberLossNoHalf(residual, delta) ==
  IF Le(Abs(residual), delta)
  THEN Mul(residual, residual)
  ELSE Mul(delta, Sub(Abs(residual), Mul(Half, delta)))

huberLoss(residual, delta) ==
  IF Le(Abs(residual), delta)
  THEN Mul(Mul(Half, residual), residual)
  ELSE Mul(delta, Sub(Abs(residual), Mul(Half, delta)))

squaredLoss(residual) == Mul(residual, residual)

\* the selection with 'hill' on the Huber arm
lossByNameHillAsHuber(name, residual, delta) ==
  IF name = "huber" \/ name = "hill" THEN huberLoss(residual, delta)
  ELSE squaredLoss(residual)

lossByName(name, residual, delta) ==
  IF name = "huber" THEN huberLoss(residual, delta) ELSE squaredLoss(residual)

inRange(v, lo, hi) == Ge(v, lo) /\ Le(v, hi)

\* the gate with each ec50 compared to its bounds without the log10
paramsInBoundsLinearEc50(params, fitType, bounds) ==
  IF fitType = "biphasic"
  THEN /\ inRange(params[1], bounds.hillSlope.min, bounds.hillSlope.max)
       /\ inRange(params[4], bounds.hillSlope.min, bounds.hillSlope.max)
       /\ inRange(params[2], bounds.eInf.min, bounds.eInf.max)
       /\ inRange(params[5], bounds.eInf.min, bounds.eInf.max)
       /\ inRange(params[3], bounds.ec50.min, bounds.ec50.max)
       /\ inRange(params[6], bounds.ec50.min, bounds.ec50.max)
  ELSE /\ inRange(params[1], bounds.hillSlope.min, bounds.hillSlope.max)
       /\ inRange(params[2], bounds.eInf.min, bounds.eInf.max)
       /\ inRange(params[3], bounds.ec50.min, bounds.ec50.max)

\* the bounds gate of objectiveFunction: TRUE when the penalty is NOT returned
paramsInBounds(params, fitType, bounds) ==
  IF fitType = "biphasic"
  THEN /\ inRange(params[1], bounds.hillSlope.min, bounds.hillSlope.max)
       /\ inRange(params[4], bounds.hillSlope.min, bounds.hillSlope.max)
       /\ inRange(params[2], bounds.eInf.min, bounds.eInf.max)
       /\ inRange(params[5], bounds.eInf.min, bounds.eInf.max)
       /\ inRange(Log10_(params[3]), bounds.ec50.min, bounds.ec50.max)
       /\ inRange(Log10_(params[6]), bounds.ec50.min, bounds.ec50.max)
  ELSE /\ inRange(params[1], bounds.hillSlope.min, bounds.hillSlope.max)
       /\ inRange(params[2], bounds.eInf.min, bounds.eInf.max)
       /\ inRange(Log10_(params[3]), bounds.ec50.min, bounds.ec50.max)

\* 1e12
Penalty == [k |-> "fin", m |-> 100, e |-> 10]

\* the weight with the endpoint test placed after the midpoint test, so that an
\* endpoint keeps the endpoint weight
pointWeightEndpointLast(i, n, fitType, config) ==
  IF i = 0 \/ i = 1 \/ i = n - 2 \/ i = n - 1
  THEN OrElse(config.robust.weights.endpoints, Ten)
  ELSE IF fitType # "biphasic" /\ config.robust.weights.enableMidpointForMonophasic
          /\ i = n \div 2
       THEN OrElse(config.robust.weights.midpoint, Ten)
       ELSE One

\* weight of the point at 0-based index i among n points
pointWeight(i, n, fitType, config) ==
  IF fitType # "biphasic" /\ config.robust.weights.enableMidpointForMonophasic
     /\ i = n \div 2
  THEN OrElse(config.robust.weights.midpoint, Ten)
  ELSE IF i = 0 \/ i = 1 \/ i = n - 2 \/ i = n - 1
       THEN OrElse(config.robust.weights.endpoints, Ten)
       ELSE One

\* the residual of the model at data point p, as a fraction
residualAt(p, params, fitType) ==
  LET yHat == IF fitType = "biphasic" THEN biphasicFunction(p.concentration, params)
              ELSE hillFunction_(p.concentration, params)
  IN eager(yHat, Sub(Div(p.viability, Hundred), yHat))

\* the summand of the loop of objectiveFunction for the 0-based index i:
\* pointWeight(...) * loss(residual)
objectiveLoss(params, dataPoints, fitType, config, algo, i) ==
  LET residual == residualAt(dataPoints[i + 1], params, fitType)
  IN eager(residual, lossByName(algo, residual, OrElse(config.robust.huberDelta, One)))

objectiveTerm(params, dataPoints, fitType, config, algo, i) ==
  LET loss == objectiveLoss(params, dataPoints, fitType, config, algo, i)
  IN eager(loss, Mul(pointWeight(i, Len(dataPoints), fitType, config), loss))

\* total += summand, for the 0-based index i; the summands do not depend on
\* total and are in env.terms
objectiveLoop(env, total, i) == Add(total, env.terms[i + 1])

\* objectiveFunction with the number of residuals it summed
objectiveEval(params, dataPoints, fitType, config, algo) ==
  IF ~paramsInBounds(params, fitType, config.bounds)
  THEN [value |-> Penalty, summed |-> 0]
  ELSE LET terms == Array([i \in 1..Len(dataPoints) |->
                        objectiveTerm(params, dataPoints, fitType, config, algo, i - 1)])
       IN eager(terms,
                [value |-> forRange("objectiveLoop", [terms |-> terms], Zero, 0,
                                    Len(dataPoints) - 1),
                 summed |-> Len(dataPoints)])

objectiveFunction(params, dataPoints, fitType, config, algo) ==
  objectiveEval(params, dataPoints, fitType, config, algo).value

\* lossByName(algo, r, huberDelta) of every point, in the order of the loop;
\* empty when the bounds gate returns the penalty
objectiveLosses(params, dataPoints, fitType, config, algo) ==
  IF ~paramsInBounds(params, fitType, config.bounds) THEN <<>>
  ELSE Array([i \in 1..Len(dataPoints) |->
                objectiveLoss(params, dataPoints, fitType, config, algo, i - 1)])

(***************************************************************************)
(* Array helpers                                                           *)
(***************************************************************************)
\* the sort keys of the comparators (a, b) => key(a) - key(b) in the source
vertexValue(v) == v.value
numKey(v) == v
concentrationOf(p) == p.concentration

\* Array.prototype.sort with comparator key(a) - key(b): stable, ascending;
\* key is the name of the key function
RECURSIVE sortInsert(_, _, _, _)
sortInsert(sorted, x, key, i) ==
  IF i > Len(sorted) THEN Append(sorted, x)
  ELSE IF Gt(Invoke(key, <<sorted[i]>>), Invoke(key, <<x>>))
       THEN SubSeq(sorted, 1, i - 1) \o <<x>> \o SubSeq(sorted, i, Len(sorted))
       ELSE sortInsert(sorted, x, key, i + 1)
sortStep(env, acc, i) == sortInsert(acc, env.arr[i], env.key, 1)
sortBy(arr, key) ==
  eager(arr, forRange("sortStep", [arr |-> arr, key |-> key], <<>>, 1, Len(arr)))

\* arr.reduce((a, b) => a + b, 0)
sumStep(arr, acc, i) == Add(acc, arr[i])
sumSeq(arr) == eager(arr, forRange("sumStep", arr, Zero, 1, Len(arr)))

\* Math.min(...arr), Math.max(...arr)
minStep(arr, acc, i) == MathMin(acc, arr[i])
minSeq(arr) == eager(arr, forRange("minStep", arr, PInf, 1, Len(arr)))
maxStep(arr, acc, i) == MathMax(acc, arr[i])
maxSeq(arr) == eager(arr, forRange("maxStep", arr, NInf, 1, Len(arr)))

\* the number n of a loop counter or an array length
IntNum(n) == Num(n, 0)

(***************************************************************************)
(* Model functions and objective of the earlier application, class         *)
(* DDRCurveFitting (ddr-curve-fitting.js): four parameters per phase       *)
(* [hs, eInf, ec50, eMax], residuals in percent, no bounds gate            *)
(***************************************************************************)
legacyHillFunction(x, params) ==
  LET hs == params[1]
      eInf == params[2]
      ec50 == params[3]
      eMax == params[4]
      logX == Log10_(x)
      logEC50 == Log10_(ec50)
      exponent == Mul(hs, Sub(logX, logEC50))
      power == Pow10_(exponent)
      denominator == Add(One, power)
  IN eager(<<logX, logEC50, exponent, power, denominator>>,
           Add(eInf, Div(Sub(eMax, eInf), denominator)))

legacyBiphasicFunction(x, params) ==
  LET phase1 == legacyHillFunction_(x, SubSeq(params, 1, 4))
      phase2 == legacyHillFunction_(x, SubSeq(params, 5, 8))
  IN eager(<<phase1, phase2>>, Mul(phase1, phase2))

\* the prediction in percent for one point
legacyPredicted(fitType, concentration, params) ==
  Mul(IF fitType = "biphasic" THEN legacyBiphasicFunction(concentration, params)
      ELSE legacyHillFunction_(concentration, params),
      Hundred)

\* the summand of one point in the loop of objectiveFunction
legacyLossOf(residual, useHuber, delta) ==
  eager(residual, IF useHuber THEN huberLoss(residual, delta) ELSE squaredLoss(residual))
legacyLoss(params, point, fitType, useHuber, delta) ==
  legacyLossOf(Sub(point.viability, legacyPredicted(fitType, point.concentration, params)),
               useHuber, delta)

\* objectiveFunction(params, dataPoints, fitType, useHuber) of the class, delta
\* being this.advancedConfig.huberDelta
legacyObjectiveFunction(params, dataPoints, fitType, useHuber, delta) ==
  sumSeq(Array([i \in 1..Len(dataPoints) |->
                  legacyLoss(params, dataPoints[i], fitType, useHuber, delta)]))

\* the closure (params) => this.objectiveFunction(params, this.dataPoints,
\* type, useHuber) of the class
legacyObjectiveClosure(dataPoints, fitType, useHuber, delta) ==
  [dataPoints |-> dataPoints, fitType |-> fitType, useHuber |-> useHuber,
   huberDelta |-> delta]

\* The closure (p) => objectiveFunction(p, sortedPoints, fitType, config, algo)
\* is the record of the variables it captures; callObjective applies it.
objectiveClosure(sortedPoints, fitType, config, algo) ==
  [dataPoints |-> sortedPoints, fitType |-> fitType, config |-> config, algo |-> algo]
callObjective(obj, p) ==
  IF "useHuber" \in DOMAIN obj
  THEN legacyObjectiveFunction(p, obj.dataPoints, obj.fitType, obj.useHuber, obj.huberDelta)
  ELSE objectiveFunction(p, obj.dataPoints, obj.fitType, obj.config, obj.algo)

clampTo(v, range) == MathMin(range.max, MathMax(range.min, v))

\* projectToBounds that clamps each ec50 itself, not its log10, before the power
projectToBoundsNoLog(p, fitType, config) ==
  IF fitType = "biphasic"
  THEN <<clampTo(p[1], config.bounds.hillSlope), clampTo(p[2], config.bounds.eInf),
         Pow10_(clampTo(p[3], config.bounds.ec50)),
         clampTo(p[4], config.bounds.hillSlope), clampTo(p[5], config.bounds.eInf),
         Pow10_(clampTo(p[6], config.bounds.ec50))>>
  ELSE <<clampTo(p[1], config.bounds.hillSlope), clampTo(p[2], config.bounds.eInf),
         Pow10_(clampTo(p[3], config.bounds.ec50))>>

projectToBounds(p, fitType, config) ==
  IF fitType = "biphasic"
  THEN <<clampTo(p[1], config.bounds.hillSlope), clampTo(p[2], config.bounds.eInf),
         Pow10_(clampTo(Log10_(p[3]), config.bounds.ec50)),
         clampTo(p[4], config.bounds.hillSlope), clampTo(p[5], config.bounds.eInf),
         Pow10_(clampTo(Log10_(p[6]), config.bounds.ec50))>>
  ELSE Array([i \in 1..Len(p) |->
          IF i = 1 THEN clampTo(p[1], config.bounds.hillSlope)
          ELSE IF i = 2 THEN clampTo(p[2], config.bounds.eInf)
          ELSE IF i = 3 THEN Pow10_(clampTo(Log10_(p[3]), config.bounds.ec50))
          ELSE p[i]])
(***************************************************************************)
(* Nelder-Mead (models.js)                                                 *)
(***************************************************************************)
\* A vertex { point, value } of the simplex.  ref tells which array object
\* point is: i > 0 for the i-th array of the caller's initialSimplex, 0 for an
\* array that nelderMead created.
nmVertex(fn, pt) ==
  eager(pt, [point |-> pt, value |-> callObjective_(fn, pt), ref |-> 0])

nmCentroid(s) ==
  Array([i \in 1..Len(s[1].point) |->
     Div(sumSeq(Array([j \in 1..(Len(s) - 1) |-> s[j].point[i]])), IntNum(Len(s) - 1))])

\* centroid[i] + coeff * (pt[i] - centroid[i])
nmToward(centroid, coeff, pt) ==
  Array([i \in 1..Len(centroid) |-> Add(centroid[i], Mul(coeff, Sub(pt[i], centroid[i])))])

\* centroid[i] + alpha * (centroid[i] - worst[i])
nmReflect(centroid, worst) ==
  Array([i \in 1..Len(centroid) |-> Add(centroid[i], Mul(One, Sub(centroid[i], worst[i])))])

\* the assignment of a new point and value to the first vertex instead
nmSetWorstFirst(s, v) == [s EXCEPT ![1] = [v EXCEPT !.ref = 0]]

\* worst.point = v.point; worst.value = v.value: the vertex object in the last
\* slot now holds the array v.point
nmSetWorst(s, v) == [s EXCEPT ![Len(s)] = [v EXCEPT !.ref = 0]]

\* the shrink step writes the new coordinates into the array simplex[i].point
\* itself, so the vertex keeps the array object it had
nmShrink(fn, s) ==
  Array([i \in 1..Len(s) |->
     IF i = 1 THEN s[1]
     ELSE [nmVertex(fn, Array([j \in 1..Len(s[1].point) |->
                           Add(s[1].point[j],
                               Mul(Half, Sub(s[i].point[j], s[1].point[j])))]))
             EXCEPT !.ref = s[i].ref]])

\* the expansion branch: reflected point r is better than the best vertex
nmExpand(fn, s, centroid, r) ==
  LET e == nmVertex(fn, nmToward_(centroid, Two, r.point))
  IN eager(e, IF Lt(e.value, r.value) THEN nmSetWorst(s, e) ELSE nmSetWorst(s, r))

\* the contraction branch, shrinking when the contracted point is no better
nmContract(fn, s, centroid, r) ==
  LET worst == s[Len(s)]
      c == nmVertex(fn, IF Lt(r.value, worst.value)
                        THEN nmToward_(centroid, Half, r.point)
                        ELSE nmToward_(centroid, Half, worst.point))
  IN eager(c, IF Lt(c.value, worst.value) THEN nmSetWorst(s, c) ELSE nmShrink(fn, s))

\* the update of one pass of the loop body on the sorted simplex s, given the
\* centroid and the reflected vertex r
nmUpdate(fn, s, centroid, r) ==
  IF Lt(r.value, s[1].value) THEN nmExpand(fn, s, centroid, r)
  ELSE IF Lt(r.value, s[Len(s) - 1].value) THEN nmSetWorst(s, r)
  ELSE nmContract(fn, s, centroid, r)

\* one pass of the loop body on the sorted simplex s; returns the simplex
\* after the update, vertices in the slots the code leaves them in
nmStep(fn, s) ==
  LET centroid == nmCentroid(s)
      reflected == nmVertex(fn, nmReflect(centroid, s[Len(s)].point))
  IN eager(<<centroid, reflected>>, nmUpdate(fn, s, centroid, reflected))

\* the stop test at the end of the loop body: worst and best are the objects
\* that were last and first after the sort at the top of this iteration
nmStop(sortedBefore, after, tolerance) ==
  Lt(Sub(after[Len(after)].value, sortedBefore[1].value), tolerance)

\* the contents of the caller's arrays once the simplex is s: an array that a
\* vertex still holds has the coordinates of that vertex
nmCallerArrays(arrays, s) ==
  Array([i \in 1..Len(arrays) |->
     IF \E j \in 1..Len(s) : s[j].ref = i
     THEN s[CHOOSE j \in 1..Len(s) : s[j].ref = i].point
     ELSE arrays[i]])

\* the loop body after the sort; bests collects best.value of each pass
nmSorted(env, s, st) ==
  LET after == nmStep_(env.fn, s)
  IN eager(after,
           [simplex |-> after, iter |-> st.iter + 1,
            done |-> nmStop(s, after, env.tolerance),
            arrays |-> nmCallerArrays(st.arrays, after),
            bests |-> Append(st.bests, s[1].value)])

\* one iteration of the for-loop on [simplex, iter, done, arrays, bests]
nmIteration(env, st) ==
  IF st.iter >= env.maxIterations THEN [st EXCEPT !.done = TRUE]
  ELSE LET sorted == sortBy(st.simplex, "vertexValue")
       IN eager(sorted, nmSorted(env, sorted, st))

\* the iteration cap and the tolerance that nelderMead reads from the config
nmMaxIterations(config) == OrElseI(config.optimizer.maxIterations, 50000)
nmTolerance(config) == OrElse(config.optimizer.convergenceTolerance, Num(1, -6))

\* the for-loop of nelderMead; returns [simplex, iter, done, arrays, bests] as
\* the loop leaves them, the simplex not yet sorted again; arrays: the
\* contents of the arrays of initialSimplex
nmRun(fn, initialSimplex, config) ==
  LET simplex == Array([i \in 1..Len(initialSimplex) |->
                          [nmVertex(fn, initialSimplex[i]) EXCEPT !.ref = i]])
  IN eager(<<initialSimplex, simplex>>,
           iterate("nmIteration",
                   [fn |-> fn,
                    maxIterations |-> nmMaxIterations(config),
                    tolerance |-> nmTolerance(config)],
                   [simplex |-> simplex, iter |-> 0, done |-> FALSE,
                    arrays |-> initialSimplex, bests |-> <<>>]))

nelderMead(fn, initialSimplex, config) ==
  LET final == nmRun(fn, initialSimplex, config).simplex
  IN eager(final, sortBy(final, "vertexValue")[1].point)
(***************************************************************************)
(* r2ForParams, buildJitteredSimplex                                       *)
(***************************************************************************)
modelPercent(type, concentration, params) ==
  LET fraction == IF type = "biphasic" THEN biphasicFunction(concentration, params)
                  ELSE hillFunction_(concentration, params)
  IN eager(fraction, Mul(fraction, Hundred))

\* the ssr and sst accumulation loops shared by r2ForParams and
\* calculateMetrics
ssrStep(env, acc, i) ==
  LET yHat == modelPercent(env.type, env.pts[i].concentration, env.params)
  IN eager(yHat, Add(acc, Pow_(Sub(env.pts[i].viability, yHat), Two)))
ssrOf(pts, type, params) ==
  forRange("ssrStep", [pts |-> pts, type |-> type, params |-> params], Zero, 1, Len(pts))
sstStep(env, acc, i) == Add(acc, Pow_(Sub(env.pts[i].viability, env.meanY), Two))
sstOf(pts, meanY) ==
  forRange("sstStep", [pts |-> pts, meanY |-> meanY], Zero, 1, Len(pts))

meanViability(pts) ==
  Div(sumSeq(Array([i \in 1..Len(pts) |-> pts[i].viability])), IntNum(Len(pts)))

\* 1 - ssr / sst, or 0 when sst is not positive
r2Of(ssr, sst) == IF Gt(sst, Zero) THEN Sub(One, Div(ssr, sst)) ELSE Zero
sseAndR2(ssr, sst) == [sse |-> ssr, r2 |-> r2Of(ssr, sst)]

r2ForParams(params, fitType, sortedPoints) ==
  IF Len(sortedPoints) = 0 THEN [sse |-> PInf, r2 |-> NInf]
  ELSE LET ssr == ssrOf(sortedPoints, fitType, params)
           meanY == meanViability(sortedPoints)
           sst == sstOf(sortedPoints, meanY)
       IN eager(<<ssr, meanY, sst>>, sseAndR2(ssr, sst))

\* the vertex that perturbs the 0-based coordinate j of center
jitteredVertex(center, jitter, j) ==
  [center EXCEPT ![j + 1] =
     MathMax(Num(1, -9),
             Mul(center[j + 1],
                 Add(One, IF j = 1 \/ j = 4 THEN MathMin(Num(5, -2), jitter)
                          ELSE jitter)))]

buildJitteredSimplex(center, fitType, jitter) ==
  <<center>> \o Array([j \in 1..(IF fitType = "biphasic" THEN 6 ELSE 3) |->
                   jitteredVertex(center, jitter, j - 1)])

(***************************************************************************)
(* Initial guess, projected gradient descent                               *)
(***************************************************************************)
logConcentrations(pts) == Array([i \in 1..Len(pts) |-> Log10_(pts[i].concentration)])
clampedFractions(pts) ==
  Array([i \in 1..Len(pts) |-> MathMin(MathMax(Div(pts[i].viability, Hundred), Zero), One)])

\* the interpolation with the numerator of t negated
interpolateHalfNegated(x1, x2, y1, y2) ==
  Add(x1, Mul(Div(Sub(y1, Half), OrElse(Sub(y2, y1), Num(1, -9))), Sub(x2, x1)))

\* x1 + t * (x2 - x1) with t = (0.5 - y1) / ((y2 - y1) || 1e-9)
interpolateHalf(x1, x2, y1, y2) ==
  Add(x1, Mul(Div(Sub(Half, y1), OrElse(Sub(y2, y1), Num(1, -9))), Sub(x2, x1)))

\* the bracketing loop of computeGrittyGuess from 0-based index i on
RECURSIVE bracketFrom(_, _, _, _)
bracketFrom(xs, ys, i, fallback) ==
  IF i >= Len(xs) - 1 THEN fallback
  ELSE IF Le(Mul(Sub(ys[i + 1], Half), Sub(ys[i + 2], Half)), Zero)
       THEN interpolateHalf(xs[i + 1], xs[i + 2], ys[i + 1], ys[i + 2])
       ELSE bracketFrom(xs, ys, i + 1, fallback)

\* the guess from the log concentrations xs, the clamped fractions ys and eInf
guessFrom(fitType, xs, ys, sortedX, eInf) ==
  IF fitType = "biphasic"
  THEN <<Num(12, -1), eInf,
         MathMax(Num(1, -9), Pow10_(sortedX[(Len(sortedX) \div 4) + 1])),
         Num(15, -1),
         MathMin(Num(95, -2), MathMax(Add(eInf, Num(5, -2)), Zero)),
         MathMax(Num(1, -9), Pow10_(sortedX[((3 * Len(sortedX)) \div 4) + 1]))>>
  ELSE <<Num(15, -1), eInf,
         MathMax(Num(1, -9),
                 Pow10_(bracketFrom(xs, ys, 0, Div(sumSeq(xs), IntNum(Len(xs))))))>>

guessOf(fitType, xs, ys) ==
  LET sortedX == sortBy(xs, "numKey")
      minY == minSeq(ys)
      eInf == MathMin(Num(9, -1), MathMax(Zero, Mul(minY, Num(9, -1))))
  IN eager(<<xs, ys, sortedX, minY, eInf>>, guessFrom(fitType, xs, ys, sortedX, eInf))

computeGrittyGuess(fitType, sortedPoints, config) ==
  guessOf(fitType, logConcentrations(sortedPoints), clampedFractions(sortedPoints))

\* p with coordinate i perturbed: p[i] * (1 + eps) + (p[i] === 0 ? eps : 0)
perturbed(p, eps, i) ==
  [p EXCEPT ![i] = Add(Mul(p[i], Add(One, eps)), IF Eq(p[i], Zero) THEN eps ELSE Zero)]

\* (obj(pp) - f0) / (pp[i] - p[i])
gradComponent(obj, p, pp, f0, i) ==
  LET f1 == callObjective_(obj, pp)
  IN eager(<<pp, f1>>, Div(Sub(f1, f0), Sub(pp[i], p[i])))

gradFrom(obj, p, f0, eps) ==
  [f0 |-> f0,
   g |-> Array([i \in 1..Len(p) |-> gradComponent(obj, p, perturbed(p, eps, i), f0, i)])]

finiteDiffGrad(obj, p, eps) ==
  LET f0 == callObjective_(obj, p)
  IN eager(f0, gradFrom(obj, p, f0, eps))

\* the line-search state for step length alpha
trialAt(env, alpha, bt) ==
  LET t == projectToBounds_(Array([i \in 1..Len(env.p) |-> Sub(env.p[i], Mul(alpha, env.g[i]))]),
                           env.fitType, env.config)
      fTrial == callObjective_(env.obj, t)
  IN eager(<<alpha, t, fTrial>>,
           [alpha |-> alpha, trial |-> t, fTrial |-> fTrial, bt |-> bt, done |-> FALSE])

\* one pass of the backtracking while-loop on [alpha, trial, fTrial, bt, done]
backtrack(env, st) ==
  IF Gt(st.fTrial, env.f0) /\ st.bt < env.btMax
  THEN trialAt(env, Mul(st.alpha, Half), st.bt + 1)
  ELSE [st EXCEPT !.done = TRUE]

\* the end of the loop body that keeps the trial whatever its value
gdAcceptAlways(st, ls, tol) ==
  [p |-> ls.trial, alpha |-> ls.alpha, fPrev |-> ls.fTrial, k |-> st.k + 1,
   done |-> ~Lt(ls.fTrial, Sub(st.fPrev, tol))]

\* the rest of the loop body of projectedGradDescent once the line search ls
\* has ended
gdAccept(st, ls, tol) ==
  IF Lt(ls.fTrial, Sub(st.fPrev, tol))
  THEN [p |-> ls.trial, alpha |-> ls.alpha, fPrev |-> ls.fTrial, k |-> st.k + 1,
        done |-> FALSE]
  ELSE [p |-> st.p, alpha |-> ls.alpha, fPrev |-> st.fPrev, k |-> st.k, done |-> TRUE]

\* the first trial of an iteration: p + step with step = -alpha * g, projected
gdFirstTrial(env, alpha) ==
  LET t == projectToBounds_(Array([i \in 1..Len(env.p) |->
                              Add(env.p[i], Mul(Neg(alpha), env.g[i]))]),
                           env.fitType, env.config)
      fTrial == callObjective_(env.obj, t)
  IN eager(<<t, fTrial>>,
           [alpha |-> alpha, trial |-> t, fTrial |-> fTrial, bt |-> 0, done |-> FALSE])

\* the line search of one iteration, from the gradient fd at st.p
gdLineEnv(env, st, fd) ==
  [obj |-> env.obj, p |-> st.p, g |-> fd.g, f0 |-> fd.f0,
   btMax |-> OrElseI(env.config.optimizer.gdBacktrackingMax, 10),
   fitType |-> env.fitType, config |-> env.config]
gdLineSearch(env, st, fd) ==
  LET ls == gdLineEnv(env, st, fd)
      first == gdFirstTrial_(ls, st.alpha)
  IN eager(<<ls, first>>, iterate("backtrack", ls, first))

\* one iteration of the for-loop on [p, alpha, fPrev, k, done]
gdIteration(env, st) ==
  IF st.k >= env.maxIter THEN [st EXCEPT !.done = TRUE]
  ELSE LET fd == finiteDiffGrad_(env.obj, st.p,
                                 OrElse(env.config.optimizer.gdEps, Num(1, -6)))
           ls == gdLineSearch(env, st, fd)
       IN eager(<<fd, ls>>,
                gdAccept(st, ls, OrElse(env.config.optimizer.improvementTol, Num(1, -6))))

MinI(a, b) == IF a < b THEN a ELSE b

\* the loop of projectedGradDescent from the projected start p
\* p, alpha, fPrev and k at the end of the loop
gdFrom(obj, p, fitType, config) ==
  LET fPrev == callObjective_(obj, p)
  IN eager(fPrev,
           iterate("gdIteration",
                   [obj |-> obj, fitType |-> fitType, config |-> config,
                    maxIter |-> MinI(400, OrElseI(config.optimizer.maxGDIter, 200))],
                   [p |-> p, alpha |-> OrElse(config.optimizer.gdAlpha, One),
                    fPrev |-> fPrev, k |-> 0, done |-> FALSE]))

\* projectedGradDescent with the values of its variables at the return
gdRun(obj, p0, fitType, config) ==
  LET p == projectToBounds_(p0, fitType, config)
  IN eager(p, gdFrom(obj, p, fitType, config))

projectedGradDescent(obj, p0, fitType, config) == gdRun(obj, p0, fitType, config).p

(***************************************************************************)
(* Mesh evaluation and pattern search                                      *)
(***************************************************************************)
meshDensities(fitType, config) ==
  IF fitType = "biphasic" THEN config.mesh.densitiesBiphasic ELSE config.mesh.densitiesMono

rangeFor(idx, fitType, b) ==
  IF fitType = "biphasic"
  THEN IF idx = 0 \/ idx = 3 THEN <<b.hillSlope.min, b.hillSlope.max>>
       ELSE IF idx = 1 \/ idx = 4 THEN <<b.eInf.min, b.eInf.max>>
       ELSE IF idx = 2 \/ idx = 5 THEN <<b.ec50.min, b.ec50.max>>
       ELSE <<Zero, One>>
  ELSE IF idx = 0 THEN <<b.hillSlope.min, b.hillSlope.max>>
       ELSE IF idx = 1 THEN <<b.eInf.min, b.eInf.max>>
       ELSE IF idx = 2 THEN <<b.ec50.min, b.ec50.max>>
       ELSE <<Zero, One>>

\* the levels lo + (k / d) * (hi - lo), k = 0..d, of the range r = [lo, hi]
levelsOf(r, d) ==
  Array([kk \in 1..(d + 1) |-> Add(r[1], Mul(Div(IntNum(kk - 1), IntNum(d)), Sub(r[2], r[1])))])

meshLevels(fitType, config) ==
  Array([i \in 1..Len(meshDensities(fitType, config)) |->
     levelsOf(rangeFor(i - 1, fitType, config.bounds), meshDensities(fitType, config)[i])])

\* the number of candidates that buildCandidates pushes from dimension idx on
RECURSIVE gridSize(_, _)
gridSize(levels, idx) ==
  IF idx > Len(levels) THEN 1 ELSE Len(levels[idx]) * gridSize(levels, idx + 1)

\* the prefix of the candidate at 0-based position g of the grid, in the order
\* the recursion pushes it (the last dimension varies fastest)
gridPrefix(g, levels) ==
  Array([i \in 1..Len(levels) |->
     levels[i][((g \div gridSize(levels, i + 1)) % Len(levels[i])) + 1]])

\* the ec50 entries of a prefix converted from log to linear
toLinear(prefix, fitType) ==
  IF fitType = "biphasic"
  THEN [prefix EXCEPT ![3] = Pow10_(prefix[3]), ![6] = Pow10_(prefix[6])]
  ELSE [prefix EXCEPT ![3] = Pow10_(prefix[3])]

\* buildCandidates: the candidate at 0-based position g of the grid
buildCandidates(g, levels, fitType, config) ==
  projectToBounds_(toLinear(gridPrefix(g, levels), fitType), fitType, config)

\* the downsampling applied from half of maxCandidates on, to half as many
\* candidates
meshCandidatesHalfCap(levels, fitType, config, rnd) ==
  IF gridSize(levels, 1) > OrElseI(config.mesh.maxCandidates, 5000) \div 2
  THEN Array([i \in 1..(Len(rnd) \div 2) |->
                buildCandidates(rnd[i], levels, fitType, config)])
  ELSE Array([i \in 1..gridSize(levels, 1) |-> buildCandidates(i - 1, levels, fitType, config)])

\* the candidates after the downsampling; rnd: the distinct 0-based grid
\* indices that the Math.random loop adds to idxs, in insertion order (used
\* only when the grid exceeds maxCandidates)
meshCandidates(levels, fitType, config, rnd) ==
  IF gridSize(levels, 1) > OrElseI(config.mesh.maxCandidates, 5000)
  THEN Array([i \in 1..Len(rnd) |-> buildCandidates(rnd[i], levels, fitType, config)])
  ELSE Array([i \in 1..gridSize(levels, 1) |-> buildCandidates(i - 1, levels, fitType, config)])

\* the comparison that keeps the candidate with the larger value
meshBetterLarger(best, cand, val) ==
  IF Gt(val, best.val) THEN [p |-> cand, val |-> val] ELSE best

\* the comparison that also replaces the best point on equal values
meshBetterOnTies(env, best, i) ==
  IF Le(env.vals[i], best.val) THEN [p |-> env.candidates[i], val |-> env.vals[i]]
  ELSE best

\* the comparison of the evaluation loop of meshEval for candidate cand
meshBetter(best, cand, val) ==
  IF Lt(val, best.val) THEN [p |-> cand, val |-> val] ELSE best

\* the body of the evaluation loop of meshEval for the candidate at index i;
\* env.vals[i] is obj(candidates[i]), which does not depend on best
meshBest(env, best, i) == meshBetter(best, env.candidates[i], env.vals[i])

meshSteps(densities, stepScale) ==
  Array([i \in 1..Len(densities) |-> Div(stepScale, IntNum(densities[i]))])

\* the evaluation loop of meshEval and its result
meshSearch(obj, guess, candidates, config, steps) ==
  LET bestVal == callObjective_(obj, guess)
      vals == Array([i \in 1..Len(candidates) |-> callObjective_(obj, candidates[i])])
      best == forRange("meshBest", [candidates |-> candidates, vals |-> vals],
                       [p |-> guess, val |-> bestVal], 1, Len(candidates)).p
  IN eager(<<candidates, bestVal, vals, best, steps>>,
           [best |-> best,
            steps |-> steps,
            span |-> OrElse(config.mesh.span, One),
            precision |-> OrElse(config.mesh.precision, Num(1, -4))])

meshEval(fitType, guess, sortedPoints, config, algo, rnd) ==
  LET levels == meshLevels(fitType, config)
      candidates == meshCandidates(levels, fitType, config, rnd)
      steps == meshSteps(meshDensities(fitType, config),
                         OrElse(config.mesh.stepScale, Half))
  IN eager(<<levels, candidates, steps>>,
           meshSearch(objectiveClosure(sortedPoints, fitType, config, algo), guess,
                      candidates, config, steps))

\* the comparison of one trial of the sweep, on the state [guess, guessVal,
\* improved]
psBetter(st, trial, v) ==
  IF Lt(v, st.guessVal) THEN [guess |-> trial, guessVal |-> v, improved |-> TRUE]
  ELSE st

psEval(env, st, trial) ==
  LET v == callObjective_(env.obj, trial)
  IN eager(v, psBetter(st, trial, v))

\* one (i, dir) trial of the sweep: delta = dir * span * steps[i]
psTrial(env, st, i, dir) ==
  LET trial == projectToBounds_([st.guess EXCEPT ![i] =
                   Add(st.guess[i], Mul(Mul(IntNum(dir), env.span), env.steps[i]))],
                 env.fitType, env.config)
  IN eager(trial, psEval(env, st, trial))

\* the body of the sweep over the coordinates, +1 before -1 on each
psSweepStep(env, st, j) ==
  psTrial(env, st, (j + 1) \div 2, IF j % 2 = 1 THEN 1 ELSE -1)

psSweep(env, st) ==
  forRange("psSweepStep", [env EXCEPT !.span = st.span],
           [guess |-> st.guess, guessVal |-> st.guessVal, improved |-> FALSE],
           1, 2 * Len(st.guess))

\* the end of one pass of the while-loop: if (!improved) span *= 0.5
psAfterSweep(st, sw) ==
  [guess |-> sw.guess, guessVal |-> sw.guessVal,
   span |-> IF sw.improved THEN st.span ELSE Mul(st.span, Half),
   done |-> FALSE]

\* one pass of the while-loop on [guess, guessVal, span, done]
psIteration(env, st) ==
  IF ~Gt(st.span, env.precision) THEN [st EXCEPT !.done = TRUE]
  ELSE LET sw == psSweep(env, st)
       IN eager(sw, psAfterSweep(st, sw))

psFrom(obj, start, fitType, config, steps, span, precision) ==
  LET guessVal == callObjective_(obj, start)
  IN eager(<<start, guessVal>>,
           iterate("psIteration",
                   [obj |-> obj, fitType |-> fitType, config |-> config, steps |-> steps,
                    span |-> span, precision |-> precision],
                   [guess |-> start, guessVal |-> guessVal, span |-> span,
                    done |-> FALSE]).guess)

patternSearch(fitType, start, sortedPoints, config, algo, steps, span, precision) ==
  psFrom(objectiveClosure(sortedPoints, fitType, config, algo), start, fitType, config,
         steps, span, precision)

(***************************************************************************)
(* fitCase1Strategy                                                        *)
(***************************************************************************)
\* the mesh and pattern search fallback
case1Fallback(c, mesh) ==
  patternSearch(c.fitType, mesh.best, c.sortedPoints, c.config, c.algo,
                mesh.steps, mesh.span, mesh.precision)

\* meshEval seeded with the guess, then patternSearch from the mesh result
case1MeshPattern(c, guess) ==
  LET mesh == meshEval_(c.fitType, guess, c.sortedPoints, c.config, c.algo, c.rnd)
  IN eager(mesh, case1Fallback(c, mesh))

\* the choice that always keeps the better of the gradient result and the guess
case1ChooseNoFallback(c, guess, guessVal, pGD, pGDVal) ==
  IF Lt(pGDVal, guessVal) THEN pGD ELSE guess

\* the choice between the gradient result and the fallback
case1Choose(c, guess, guessVal, pGD, pGDVal) ==
  IF ~Lt(MathMin(pGDVal, guessVal),
         Mul(guessVal, Sub(One, OrElse(c.config.optimizer.improvementTol, Num(1, -6)))))
  THEN case1MeshPattern_(c, guess)
  ELSE IF Lt(pGDVal, guessVal) THEN pGD ELSE guess

case1AfterGD(c, guess, guessVal, pGD) ==
  LET pGDVal == callObjective_(c.obj, pGD)
  IN eager(pGDVal, case1Choose(c, guess, guessVal, pGD, pGDVal))

case1From(c, guess) ==
  LET guessVal == callObjective_(c.obj, guess)
      pGD == projectedGradDescent(c.obj, guess, c.fitType, c.config)
  IN eager(<<guessVal, pGD>>, case1AfterGD(c, guess, guessVal, pGD))

\* rnd: the indices drawn by meshEval (see meshCandidates)
fitCase1Strategy(fitType, sortedPoints, config, algo, rnd) ==
  LET c == [obj |-> objectiveClosure(sortedPoints, fitType, config, algo),
            fitType |-> fitType, sortedPoints |-> sortedPoints, config |-> config,
            algo |-> algo, rnd |-> rnd]
      guess == computeGrittyGuess_(fitType, sortedPoints, config)
  IN eager(<<c, guess>>, case1From(c, guess))

(***************************************************************************)
(* Metrics (models.js)                                                     *)
(***************************************************************************)
\* JavaScript null, as a metric value, as a fitted curve and as a vector
Null == [k |-> "null", m |-> 0, e |-> 0]
NullCurve == [type |-> "null", params |-> <<>>]
NullVector == <<Null>>
NullMetrics == [rSquared |-> Null, ic50 |-> Null, auc |-> Null, emax |-> Null]

\* the trapezoid loop of calculateMetrics
aucStep(env, auc, i) ==
  Add(auc, Mul(Div(Add(env.ys[i], env.ys[i + 1]), Two), Sub(env.xs[i + 1], env.xs[i])))
aucOf(xs, ys) ==
  eager(<<xs, ys>>, forRange("aucStep", [xs |-> xs, ys |-> ys], Zero, 1, Len(xs) - 1))

\* if (!best || sse < best.sse) best = { params, sse }
ic50Better(best, params, sse) ==
  IF best.params = NullVector \/ Lt(sse, best.sse)
  THEN [params |-> params, sse |-> sse] ELSE best

ic50Candidate(env, best, params) ==
  LET sse == r2ForParams(params, "monophasic", env.sortedPoints).sse
  IN eager(<<params, sse>>, ic50Better(best, params, sse))

\* the body of the loop over the seeds of fitMonophasicForIC50
ic50SeedLoop(env, best, i) ==
  LET simplex == buildJitteredSimplex(env.seeds[i], "monophasic",
                                      OrElse(env.config.initialParams.jitter.other,
                                             Num(1, -1)))
      params == nelderMead(objectiveClosure(env.sortedPoints, "monophasic", env.config,
                                            env.algo),
                           simplex, env.config)
  IN eager(<<simplex, params>>, ic50Candidate(env, best, params))

\* the three seeds, from the log concentrations xs and clamped fractions ys
ic50Seeds(xs, ys) ==
  << <<Num(15, -1), MathMin(Num(9, -1), MathMax(Zero, Mul(minSeq(ys), Num(9, -1)))),
       MathMax(Num(1, -6), Pow10_(Div(sumSeq(xs), IntNum(Len(xs)))))>>,
     <<One, Num(1, -1), Pow10_(Neg(One))>>,
     <<Num(25, -1), Num(2, -1), Pow10_(Zero)>> >>

fitMonophasicForIC50(sortedPoints, config, algo) ==
  IF Len(sortedPoints) < 2 THEN NullVector
  ELSE LET seeds == ic50Seeds(logConcentrations(sortedPoints),
                              clampedFractions(sortedPoints))
       IN eager(seeds,
                forRange("ic50SeedLoop",
                         [sortedPoints |-> sortedPoints, config |-> config, algo |-> algo,
                          seeds |-> seeds],
                         [params |-> NullVector, sse |-> Zero], 1, 3).params)

\* the ic50 of a monophasic curve, null when eInf is not below one half
monoIC50(hs, eInf, ec50) ==
  IF Ge(Half, eInf) /\ Le(Half, One) /\ Gt(Sub(Half, eInf), Zero)
  THEN Mul(ec50, Pow_(Div(Half, Sub(Half, eInf)), Div(One, hs)))
  ELSE Null

\* the ic50 taken from the first component of the helper's vector
helperIC50HillSlope(mono) == IF mono # NullVector THEN mono[1] ELSE Null

\* if (mono) ic50 = mono[2]
helperIC50(mono) == IF mono # NullVector THEN mono[3] ELSE Null

\* The fifth argument of calculateMetrics, fitMonophasicForIC50Fn, is bound by
\* the only caller (app.js, fitCurve) to DDRModels.fitMonophasicForIC50.
ic50Of(fittedCurve, sortedPoints, config, algo) ==
  IF fittedCurve.type = "monophasic"
  THEN monoIC50(fittedCurve.params[1], fittedCurve.params[2], fittedCurve.params[3])
  ELSE LET mono == fitMonophasicForIC50_(sortedPoints, config, algo)
       IN eager(mono, helperIC50(mono))

aucMetric(sortedPoints) ==
  Div(aucOf(logConcentrations(sortedPoints),
            Array([i \in 1..Len(sortedPoints) |-> MathMin(sortedPoints[i].viability, Hundred)])),
      Hundred)

emaxOf(fittedCurve, sortedPoints, config) ==
  IF config.fitting.emaxMode = "fromCurveAtMax"
  THEN modelPercent(fittedCurve.type,
                    maxSeq(Array([i \in 1..Len(sortedPoints) |-> sortedPoints[i].concentration])),
                    fittedCurve.params)
  ELSE Null

calculateMetrics(fittedCurve, sortedPoints, config, algo) ==
  IF fittedCurve = NullCurve
     \/ Len(sortedPoints) < OrElseI(config.fitting.minPointsForFit, 5)
  THEN NullMetrics
  ELSE [rSquared |-> LET ssr == ssrOf(sortedPoints, fittedCurve.type, fittedCurve.params)
                         meanY == meanViability(sortedPoints)
                         sst == sstOf(sortedPoints, meanY)
                     IN eager(<<ssr, meanY, sst>>, r2Of(ssr, sst)),
        ic50 |-> ic50Of(fittedCurve, sortedPoints, config, algo),
        auc |-> aucMetric(sortedPoints),
        emax |-> emaxOf(fittedCurve, sortedPoints, config)]

(***************************************************************************)
(* Bounds of the explored behaviours                                       *)
(***************************************************************************)
\* clicks explored before a reset
MaxPoints == 5
\* intervals per dimension of the mesh explored by the application model
MeshDensity == 1
\* cap on the mesh candidates explored by the application model
MaxCandidates == 8

\* The configuration of the application model: DDRConfig with the mesh
\* scaled down and the finite-difference step scaled to the three digits of
\* the modelled arithmetic (1e-6 is below their resolution, as 1e-17 would
\* be below that of a double).  As with the program's values
\* (198 <= 5000 < 39204) the monophasic grid (8) is evaluated whole and the
\* biphasic grid (64) is sampled at random.
AppConfig ==
  [DDRConfig EXCEPT !.mesh.densitiesMono = Array([i \in 1..3 |-> MeshDensity]),
                    !.mesh.densitiesBiphasic = Array([i \in 1..6 |-> MeshDensity]),
                    !.mesh.maxCandidates = MaxCandidates,
                    !.optimizer.gdEps = Num(1, -2)]

\* The samples explored for the index set that meshEval draws with
\* Math.random when the grid exceeds maxCandidates: the first and the last
\* maxCandidates positions of the grid.
sampleIndices(n, k) ==
  IF n > k THEN {Array([i \in 1..k |-> i - 1]), Array([i \in 1..k |-> n - i])} ELSE {<<>>}
randomIndices(type, config) ==
  sampleIndices(gridSize(meshLevels(type, config), 1),
                OrElseI(config.mesh.maxCandidates, 5000))

(***************************************************************************)
(* The application (app.js)                                                *)
(***************************************************************************)
r5(v) == Div(MathRound(Mul(v, Num(1, 5))), Num(1, 5))

\* pixelToConcentration and pixelToViability from the plot coordinates of
\* the click: logValue, and the percentage 100 * (1 - (y - padding) / plotHeight)
pixelToConcentration(logValue) == Pow10_(logValue)
pixelToViability(percent) == percent

\* the point that onCanvasClick pushes
clickedPoint(click) ==
  [concentration |-> r5(pixelToConcentration(click.logValue)),
   viability |-> r5(pixelToViability(click.percent))]

getSortedDataPoints(points) == sortBy(points, "concentrationOf")

curveOf(type, params) ==
  [type |-> IF type = "biphasic" THEN "biphasic" ELSE "monophasic", params |-> params]

\* the end of fitCurve: the metrics of the fitted curve
fitResult(curve, sorted, algo) ==
  [fittedCurve |-> curve, metrics |-> calculateMetrics_(curve, sorted, AppConfig, algo)]

fitSorted(sorted, type, algo, rnd) ==
  LET params == fitCase1Strategy_(type, sorted, AppConfig, algo, rnd)
  IN eager(params, fitResult(curveOf(type, params), sorted, algo))

\* fitCurve on the data points dp: the new fittedCurve and metrics
fitCurve(dp, type, algo, oldMetrics, rnd) ==
  IF Len(dp) < AppConfig.fitting.minPointsForFit
  THEN [fittedCurve |-> NullCurve, metrics |-> oldMetrics]
  ELSE LET sorted == getSortedDataPoints(dp)
       IN eager(sorted, fitSorted(sorted, type, algo, rnd))

(***************************************************************************)
(* Calls of the functions above together with the values that describe     *)
(* what they did.  in: the record of the arguments.                        *)
(***************************************************************************)
\* objectiveFunction, with the number of residuals summed and their losses
withLosses(ev, losses) ==
  eager(<<ev, losses>>, [value |-> ev.value, summed |-> ev.summed, losses |-> losses])
objectiveOutcome(in) ==
  withLosses(objectiveEval(in.params, in.dataPoints, in.fitType, in.config, in.algo),
             objectiveLosses(in.params, in.dataPoints, in.fitType, in.config, in.algo))

\* projectedGradDescent, with the number of accepted trials, the value kept
\* by the loop, and the objective at the result, at p0 and at the projected p0
gdOutcome(in) ==
  LET obj == objectiveClosure(in.sortedPoints, in.fitType, in.config, in.algo)
      run == gdRun(obj, in.p0, in.fitType, in.config)
      start == projectToBounds_(in.p0, in.fitType, in.config)
      fResult == callObjective_(obj, run.p)
      fInput == callObjective_(obj, in.p0)
      fStart == callObjective_(obj, start)
  IN eager(<<run, start, fResult, fInput, fStart>>,
           [result |-> run.p, accepted |-> run.k, fPrev |-> run.fPrev,
            start |-> start, fResult |-> fResult, fInput |-> fInput, fStart |-> fStart])

vertexValues(simplex) == Array([i \in 1..Len(simplex) |-> simplex[i].value])

\* the values of nmOutcome that are computed from the run
nmObserved(obj, in, run, sorted) ==
  LET values == vertexValues(run.simplex)
      smallest == minSeq(values)
      largest == maxSeq(values)
      initialValues == Array([i \in 1..Len(in.initialSimplex) |->
                                callObjective_(obj, in.initialSimplex[i])])
      resultValue == callObjective_(obj, sorted[1].point)
  IN eager(<<values, smallest, largest, initialValues, resultValue>>,
           [iterations |-> run.iter, smallest |-> smallest, largest |-> largest,
            simplex |-> run.simplex, result |-> sorted[1].point,
            resultValue |-> resultValue, initialValues |-> initialValues,
            bests |-> run.bests, arrays |-> run.arrays])

\* nelderMead, with the number of iterations run, the simplex as the loop
\* leaves it, best.value of every pass, the returned point, the objective at
\* it and at the vertices of initialSimplex, and the contents of the caller's
\* arrays after the call
nmOutcome(in) ==
  LET obj == objectiveClosure(in.sortedPoints, in.fitType, in.config, in.algo)
      run == nmRun(obj, in.initialSimplex, in.config)
      sorted == sortBy(run.simplex, "vertexValue")
  IN eager(<<run, sorted>>, nmObserved(obj, in, run, sorted))

\* fitCase1Strategy run twice, with the draws[1] and the draws[2] of
\* Math.random, next to the guess, the gradient result, their values, the
\* mesh and pattern search result from the guess, and the objective at the
\* result
case1Outcome(in, draws) ==
  LET c == [obj |-> objectiveClosure(in.sortedPoints, in.fitType, in.config, in.algo),
            fitType |-> in.fitType, sortedPoints |-> in.sortedPoints,
            config |-> in.config, algo |-> in.algo, rnd |-> draws[1]]
      result == fitCase1Strategy_(in.fitType, in.sortedPoints, in.config, in.algo, draws[1])
      again == fitCase1Strategy_(in.fitType, in.sortedPoints, in.config, in.algo, draws[2])
      guess == computeGrittyGuess_(in.fitType, in.sortedPoints, in.config)
      guessValue == callObjective_(c.obj, guess)
      refined == projectedGradDescent(c.obj, guess, in.fitType, in.config)
      refinedValue == callObjective_(c.obj, refined)
      meshPattern == case1MeshPattern_(c, guess)
      resultValue == callObjective_(c.obj, result)
  IN eager(<<result, again, guess, guessValue, refined, refinedValue, meshPattern,
             resultValue>>,
           [result |-> result, again |-> again, draws |-> draws, guess |-> guess,
            guessValue |-> guessValue, refined |-> refined,
            refinedValue |-> refinedValue, meshPattern |-> meshPattern,
            resultValue |-> resultValue])

\* the values of meshOutcome that are computed from the candidates and the
\* result of meshEval
meshObserved(obj, in, candidates, mesh) ==
  LET vals == Array([i \in 1..Len(candidates) |-> callObjective_(obj, candidates[i])])
      guessValue == callObjective_(obj, in.guess)
      bestValue == callObjective_(obj, mesh.best)
  IN eager(<<vals, guessValue, bestValue>>,
           [best |-> mesh.best, bestValue |-> bestValue, guessValue |-> guessValue,
            candidates |-> candidates, vals |-> vals, steps |-> mesh.steps,
            span |-> mesh.span, precision |-> mesh.precision])

\* meshEval with the index draws in.rnd of Math.random, next to the
\* candidates it evaluates, the objective at each of them, at the guess and
\* at the returned point
meshOutcome(in) ==
  LET candidates == meshCandidates(meshLevels(in.fitType, in.config), in.fitType,
                                   in.config, in.rnd)
      mesh == meshEval_(in.fitType, in.guess, in.sortedPoints, in.config, in.algo, in.rnd)
  IN eager(<<candidates, mesh>>,
           meshObserved(objectiveClosure(in.sortedPoints, in.fitType, in.config, in.algo),
                        in, candidates, mesh))

\* the noise-free monophasic data 100 * hillFunction(c, params) at the given
\* concentrations
noiseFreePoints(params, concentrations) ==
  Array([i \in 1..Len(concentrations) |->
     [concentration |-> concentrations[i],
      viability |-> Mul(Hundred, hillFunction_(concentrations[i], params))]])

\* the round trip on the data points: fitCase1Strategy, then calculateMetrics
\* of the fitted curve
roundTripOn(in, points) ==
  LET fitted == fitCase1Strategy_("monophasic", points, in.config, in.algo, in.rnd)
      metrics == calculateMetrics_(curveOf("monophasic", fitted), points, in.config, in.algo)
  IN eager(<<points, fitted, metrics>>,
           [points |-> points, fitted |-> fitted, rSquared |-> metrics.rSquared])
roundTripOutcome(in) == roundTripOn(in, noiseFreePoints(in.params, in.concentrations))

\* computeGrittyGuess, next to the log10 concentrations it interpolates
guessOutcome(in) ==
  LET guess == computeGrittyGuess_(in.fitType, in.sortedPoints, in.config)
      logs == logConcentrations(in.sortedPoints)
  IN eager(<<guess, logs>>, [guess |-> guess, logs |-> logs])

\* the model function of the fit type at concentration in.x, next to
\* hillFunction on each parameter triple
modelOutcome(in) ==
  LET phases == Array([i \in 1..(Len(in.params) \div 3) |->
                         hillFunction_(in.x, SubSeq(in.params, 3 * i - 2, 3 * i))])
      value == IF in.fitType = "biphasic" THEN biphasicFunction(in.x, in.params)
               ELSE hillFunction_(in.x, in.params)
  IN eager(<<phases, value>>, [value |-> value, phases |-> phases])

\* projectToBounds applied once and twice, and the objective for sortedPoints
\* at the result
projectOutcome(in, sortedPoints) ==
  LET once == projectToBounds_(in.p, in.fitType, in.config)
      twice == projectToBounds_(once, in.fitType, in.config)
      value == callObjective_(objectiveClosure(sortedPoints, in.fitType, in.config,
                                               "huber"), once)
  IN eager(<<once, twice, value>>, [once |-> once, twice |-> twice, value |-> value])

(***************************************************************************)
(* The earlier application, class DDRCurveFitting (ddr-curve-fitting.js).  *)
(* An object of the class is the record of its fields dataPoints,          *)
(* fittedCurve, fitType, algorithm, metrics, advancedConfig, cachedFits    *)
(* and dataPointsHash; null is NullCurve for a curve, Null for a metric    *)
(* and NoHash for the hash.  A string is the sequence of its char codes.   *)
(***************************************************************************)
MetricsOfNothing == [rSquared |-> Null, ic50 |-> Null, auc |-> Null]
NoFits == [monophasic |-> NullCurve, biphasic |-> NullCurve]
NoHash == <<>>

\* the advancedConfig that the constructor and resetAdvancedConfig install
advancedConfigDefaults ==
  [maxIterations |-> 1000,
   convergenceTolerance |-> Num(1, -6),
   huberDelta |-> Num(10, 0),
   minPointsForFit |-> 5,
   curveResolution |-> 200,
   initialParamSets |-> 5,
   bounds |-> [eInf |-> [min |-> Zero, max |-> Num(3, -1)],
               eMax |-> [min |-> Num(8, -1), max |-> Num(12, -1)],
               hillSlope |-> [min |-> Num(5, -1), max |-> Num(3, 0)],
               ec50 |-> [min |-> Num(-2, 0), max |-> Two]]]

\* the fields after the constructor
DDRCurveFitting ==
  [dataPoints |-> <<>>,
   fittedCurve |-> NullCurve,
   fitType |-> "monophasic",
   algorithm |-> "hill",
   metrics |-> MetricsOfNothing,
   advancedConfig |-> advancedConfigDefaults,
   cachedFits |-> NoFits,
   dataPointsHash |-> NoHash]

\* the decimal digits of the natural number n, most significant first
RECURSIVE digitsOf(_)
digitsOf(n) == IF n < 10 THEN <<n>> ELSE Append(digitsOf(n \div 10), n % 10)

\* n zero digits, none for n <= 0
zeros(n) == [i \in 1..(IF n > 0 THEN n ELSE 0) |-> 0]

\* the decimal digits of the integer nearest to |x| * 10^f, the larger one on
\* a tie, for a finite x
scaledDigits(x, f) ==
  LET a == AbsI(x.m)
      s == x.e + f
  IN IF a = 0 \/ s < -3 THEN <<0>>
     ELSE IF s >= 0 THEN digitsOf(a) \o zeros(s)
     ELSE digitsOf((a + (P10[1 - s] \div 2)) \div P10[1 - s])

\* Number.prototype.toFixed(f) with f > 0 for |x| < 1e21: sign, integer
\* digits, ".", f fraction digits; "NaN", "Infinity" and "-Infinity"
toFixed(x, f) ==
  LET d == scaledDigits(x, f)
      padded == zeros(f + 1 - Len(d)) \o d
      sign == IF x.m < 0 THEN <<45>> ELSE <<>>
  IN CASE x.k = "nan" -> <<78, 97, 78>>
       [] x.k = "inf" -> sign \o <<73, 110, 102, 105, 110, 105, 116, 121>>
       [] OTHER -> sign \o [i \in 1..(Len(padded) - f) |-> 48 + padded[i]] \o <<46>>
                        \o [i \in 1..f |-> 48 + padded[Len(padded) - f + i]]

\* `${p.concentration.toFixed(6)},${p.viability.toFixed(2)}`
pointString(p) == toFixed(p.concentration, 6) \o <<44>> \o toFixed(p.viability, 2)

\* strings.join('|')
RECURSIVE joinFrom(_, _)
joinFrom(strings, i) ==
  IF i > Len(strings) THEN <<>>
  ELSE IF i = Len(strings) THEN strings[i]
  ELSE strings[i] \o <<124>> \o joinFrom(strings, i + 1)

\* hash = ((hash << 5) - hash) + char; hash = hash & hash: 31 * hash + char
\* as a signed 32-bit integer, computed on the two 16-bit halves of hash
hashStep(str, hash, i) ==
  LET lo == 31 * (hash % 65536) + str[i]
      hi == (31 * ((hash \div 65536) % 65536) + (lo \div 65536)) % 65536
  IN (IF hi >= 32768 THEN hi - 65536 ELSE hi) * 65536 + (lo % 65536)

\* the loop of createDataHash over the chars of str
hashOf(str) == eager(str, forRange("hashStep", str, 0, 1, Len(str)))

createDataHash(dataPoints) ==
  hashOf(joinFrom(Array([i \in 1..Len(dataPoints) |-> pointString(dataPoints[i])]), 1))

\* x - Math.floor(x) for x = Math.sin(seed) * 10000, the seed being
\* dataHash + offset.  The sine of a 32-bit integer has no counterpart in the
\* three-digit arithmetic; pseudo is modelled by a fixed scrambling of dataHash
\* and offset with values in [0, 1), which keeps what the callers rely on: the
\* same seed gives the same value.
pseudoOf(dataHash, offset) ==
  Num(((dataHash % 997) * 7 + (offset % 1000) * 37 + (offset \div 1000) * 131) % 1000, -3)

\* randomInRange(min, max, seed) with seed = dataHash + offset
randomInRange(min, max, dataHash, offset) ==
  Add(min, Mul(pseudoOf(dataHash, offset), Sub(max, min)))

\* the four parameters of one phase that generateInitialParams draws from
\* offset on
initialPhase(bounds, dataHash, offset) ==
  <<randomInRange_(bounds.hillSlope.min, bounds.hillSlope.max, dataHash, offset),
    randomInRange_(bounds.eInf.min, bounds.eInf.max, dataHash, offset + 1),
    Pow10_(randomInRange_(bounds.ec50.min, bounds.ec50.max, dataHash, offset + 2)),
    randomInRange_(bounds.eMax.min, bounds.eMax.max, dataHash, offset + 3)>>

\* the rows that generateInitialParams pushes for the seed dataHash
initialRows(type, advancedConfig, dataHash) ==
  Array([n \in 1..advancedConfig.initialParamSets |->
     initialPhase(advancedConfig.bounds, dataHash, (n - 1) * 1000)
       \o (IF type = "biphasic"
           THEN initialPhase(advancedConfig.bounds, dataHash, (n - 1) * 1000 + 4)
           ELSE <<>>)])

generateInitialParams(type, dataPoints, advancedConfig) ==
  initialRows(type, advancedConfig, createDataHash_(dataPoints))

\* nelderMead of the class, called without maxIterations and tolerance: both
\* come from advancedConfig; the loop body is that of models.js (nmIteration)
legacySimplex(fn, initialSimplex) ==
  Array([i \in 1..Len(initialSimplex) |->
           [nmVertex(fn, initialSimplex[i]) EXCEPT !.ref = i]])
legacyLoop(fn, initialSimplex, simplex, advancedConfig) ==
  eager(simplex,
        iterate("nmIteration",
                [fn |-> fn,
                 maxIterations |-> advancedConfig.maxIterations,
                 tolerance |-> advancedConfig.convergenceTolerance],
                [simplex |-> simplex, iter |-> 0, done |-> FALSE,
                 arrays |-> initialSimplex, bests |-> <<>>]))
legacyBestPoint(final) == eager(final, sortBy(final.simplex, "vertexValue")[1].point)
legacyNelderMead(fn, initialSimplex, advancedConfig) ==
  eager(initialSimplex,
        legacyBestPoint(legacyLoop(fn, initialSimplex, legacySimplex(fn, initialSimplex),
                                   advancedConfig)))

\* fitMonophasicForIC50 of the class
legacyFitMonophasicForIC50(o) ==
  legacyNelderMead_(legacyObjectiveClosure(o.dataPoints, "monophasic", FALSE,
                                          o.advancedConfig.huberDelta),
                   <<<<Num(15, -1), Num(1, -1), One, One>>,
                     <<Two, Num(2, -1), Num(5, -1), Num(95, -2)>>>>,
                   o.advancedConfig)

\* ec50 * Math.pow((n - eMax) / (eInf - n), 1 / hs) with n = 0.5, or null
legacyIC50(params) ==
  IF params = params /\ Ge(Half, params[2]) /\ Le(Half, params[4])
  THEN Mul(params[3], Pow_(Div(Sub(Half, params[4]), Sub(params[2], Half)),
                           Div(One, params[1])))
  ELSE Null

\* 1 - sumSquaredResiduals / sumSquaredTotal of calculateMetrics, or 0
legacyRSquaredOf(residuals, total) == eager(<<residuals, total>>, r2Of(residuals, total))
legacyRSquared(dataPoints, curve) ==
  legacyRSquaredOf(sumSeq(Array([i \in 1..Len(dataPoints) |->
                      Pow_(Sub(dataPoints[i].viability,
                               legacyPredicted(curve.type, dataPoints[i].concentration,
                                               curve.params)), Two)])),
                   sstOf(dataPoints, meanViability(dataPoints)))

\* the trapezoid sum of calculateMetrics: the log10 concentrations sorted,
\* the viabilities capped at 100 in the order of dataPoints
legacyAUC(dataPoints) ==
  Div(aucOf(sortBy(logConcentrations(dataPoints), "numKey"),
            Array([i \in 1..Len(dataPoints) |-> MathMin(dataPoints[i].viability, Hundred)])),
      Hundred)

\* the three assignments to this.metrics
legacyMetrics(o, rSquared, ic50, auc) ==
  eager(<<rSquared, ic50, auc>>,
        [o EXCEPT !.metrics = [rSquared |-> rSquared, ic50 |-> ic50, auc |-> auc]])

\* calculateMetrics of the class
legacyCalculateMetrics(o) ==
  IF o.fittedCurve = NullCurve \/ Len(o.dataPoints) < 5
  THEN [o EXCEPT !.metrics = MetricsOfNothing]
  ELSE legacyMetrics(o, legacyRSquared(o.dataPoints, o.fittedCurve),
                     legacyIC50(IF o.fittedCurve.type = "monophasic"
                                THEN o.fittedCurve.params
                                ELSE legacyFitMonophasicForIC50(o)),
                     legacyAUC(o.dataPoints))

\* the assignments of the else-branch of fitCurve
legacyFitted(o, currentHash, params) ==
  eager(params,
        [o EXCEPT !.fittedCurve = [type |-> o.fitType, params |-> params],
                  !.cachedFits[o.fitType] = [type |-> o.fitType, params |-> params],
                  !.dataPointsHash = <<currentHash>>])

\* the else-branch of fitCurve: fit, cache under the fit type, store the hash
legacyRefit(o, currentHash) ==
  legacyFitted(o, currentHash,
               legacyNelderMead_(
                 legacyObjectiveClosure(o.dataPoints, o.fitType, o.algorithm = "huber",
                                        o.advancedConfig.huberDelta),
                 generateInitialParams(o.fitType, o.dataPoints, o.advancedConfig),
                 o.advancedConfig))

\* the cache test of fitCurve and its two branches
legacyInstall(o, currentHash) ==
  IF currentHash = currentHash /\ o.dataPointsHash = <<currentHash>>
       /\ o.cachedFits[o.fitType] # NullCurve
  THEN [o EXCEPT !.fittedCurve = o.cachedFits[o.fitType]]
  ELSE legacyRefit(o, currentHash)

\* fitCurve of the class: the object after the call
legacyFitCurve(o) ==
  IF Len(o.dataPoints) < o.advancedConfig.minPointsForFit
  THEN [o EXCEPT !.fittedCurve = NullCurve, !.cachedFits = NoFits, !.dataPointsHash = NoHash]
  ELSE legacyCalculateMetrics_(legacyInstall(o, createDataHash_(o.dataPoints)))

\* the point that handleCanvasClick pushes: the two pixel conversions, not rounded
legacyPoint(click) ==
  [concentration |-> pixelToConcentration(click.logValue),
   viability |-> pixelToViability(click.percent)]

\* the body of handleCanvasClick on the object o: push, then fitCurve()
legacyPushed(o, click) ==
  legacyFitCurve_([o EXCEPT !.dataPoints = Append(@, legacyPoint(click))])

\* the curve of a fit of the current points with the current settings,
\* nothing cached
legacyFreshCurve(o) ==
  legacyFitCurve_([o EXCEPT !.cachedFits = NoFits, !.dataPointsHash = NoHash]).fittedCurve

(***************************************************************************)
(* fitCase1Strategy, one pass of its loops at a time                       *)
(***************************************************************************)
\* a loop that is not running
Idle == [done |-> TRUE]

\* the values a run of fitCase1Strategy works with
passEnv(in) ==
  [obj |-> objectiveClosure(in.sortedPoints, in.fitType, in.config, in.algo),
   fitType |-> in.fitType, sortedPoints |-> in.sortedPoints, config |-> in.config,
   algo |-> in.algo, rnd |-> in.rnd,
   maxIter |-> MinI(400, OrElseI(in.config.optimizer.maxGDIter, 200))]

\* the run at the head of the for-loop of projectedGradDescent
passDescent(run, gd) ==
  [run EXCEPT !.pc = "descent", !.gd = gd, !.ls = Idle]

\* fitCase1Strategy up to the for-loop of projectedGradDescent: the guess,
\* its value, the projected start and its value
passStartFrom(in, env, guess) ==
  LET guessVal == callObjective_(env.obj, guess)
      p == projectToBounds_(guess, in.fitType, in.config)
  IN eager(<<guessVal, p>>,
           [pc |-> "descent", guess |-> guess, guessVal |-> guessVal,
            gd |-> [p |-> p, alpha |-> OrElse(in.config.optimizer.gdAlpha, One),
                    fPrev |-> callObjective_(env.obj, p), k |-> 0, done |-> FALSE],
            lsEnv |-> Idle, ls |-> Idle, psEnv |-> Idle, ps |-> Idle,
            result |-> <<>>])
passStart(in) ==
  passStartFrom(in, passEnv(in), computeGrittyGuess_(in.fitType, in.sortedPoints, in.config))

\* the head of one iteration of the for-loop: the loop ends at maxIter,
\* otherwise the gradient and the first trial of the line search
passGradient(env, run) ==
  IF run.gd.k >= env.maxIter THEN [run EXCEPT !.pc = "choose"]
  ELSE LET fd == finiteDiffGrad_(env.obj, run.gd.p,
                                 OrElse(env.config.optimizer.gdEps, Num(1, -6)))
           ls == gdLineEnv(env, run.gd, fd)
       IN eager(<<fd, ls>>,
                [run EXCEPT !.pc = "backtrack", !.lsEnv = ls,
                            !.ls = gdFirstTrial_(ls, run.gd.alpha)])

\* the end of the iteration once the line search ls has ended
passAccepted(run, gd) ==
  IF gd.done THEN [run EXCEPT !.pc = "choose", !.gd = gd] ELSE passDescent(run, gd)

\* one pass of the backtracking while-loop, and the rest of the iteration
\* when the loop ends
passLineSearch(env, run, ls) ==
  IF ls.done
  THEN passAccepted(run, gdAccept(run.gd, ls,
                                  OrElse(env.config.optimizer.improvementTol, Num(1, -6))))
  ELSE [run EXCEPT !.ls = ls]
passBacktrack(env, run) == passLineSearch(env, run, backtrack_(run.lsEnv, run.ls))

\* the run at the head of the while-loop of patternSearch, from the result
\* of meshEval
passPattern(env, run, mesh) ==
  [run EXCEPT !.pc = "pattern",
              !.psEnv = [obj |-> env.obj, fitType |-> env.fitType, config |-> env.config,
                         steps |-> mesh.steps, span |-> mesh.span,
                         precision |-> mesh.precision],
              !.ps = [guess |-> mesh.best, guessVal |-> callObjective_(env.obj, mesh.best),
                      span |-> mesh.span, done |-> FALSE]]

\* the choice after projectedGradDescent: meshEval and the start of
\* patternSearch, or the better of the gradient result and the guess
passChosen(env, run, pGDVal) ==
  IF ~Lt(MathMin(pGDVal, run.guessVal),
         Mul(run.guessVal, Sub(One, OrElse(env.config.optimizer.improvementTol, Num(1, -6)))))
  THEN passPattern(env, run, meshEval_(env.fitType, run.guess, env.sortedPoints,
                                       env.config, env.algo, env.rnd))
  ELSE [run EXCEPT !.pc = "done",
                   !.result = IF Lt(pGDVal, run.guessVal) THEN run.gd.p ELSE run.guess]
passChoose(env, run) == passChosen(env, run, callObjective_(env.obj, run.gd.p))

\* one pass of the while-loop of patternSearch, and the return when it ends
passSwept(run, ps) ==
  IF ps.done THEN [run EXCEPT !.pc = "done", !.ps = ps, !.result = ps.guess]
  ELSE [run EXCEPT !.ps = ps]
passSweep(env, run) == passSwept(run, psIteration_(run.psEnv, run.ps))

\* the next pass of the run of fitCase1Strategy on the input in
case1Pass(in, run) ==
  CASE run.pc = "ready" -> passStart(in)
    [] run.pc = "descent" -> passGradient(passEnv(in), run)
    [] run.pc = "backtrack" -> passBacktrack(passEnv(in), run)
    [] run.pc = "choose" -> passChoose(passEnv(in), run)
    [] run.pc = "pattern" -> passSweep(passEnv(in), run)
    [] OTHER -> run

(***************************************************************************)
(* The table of the functions above, by name                                *)
(***************************************************************************)
Invoke(f, a) ==
  CASE f = "Log10" -> Log10(a[1])
    [] f = "Pow10" -> Pow10(a[1])
    [] f = "hillFunction" -> hillFunction(a[1], a[2])
    [] f = "objectiveLoop" -> objectiveLoop(a[1], a[2], a[3])
    [] f = "callObjective" -> callObjective(a[1], a[2])
    [] f = "projectToBounds" -> projectToBounds(a[1], a[2], a[3])
    [] f = "Pow" -> Pow(a[1], a[2])
    [] f = "vertexValue" -> vertexValue(a[1])
    [] f = "numKey" -> numKey(a[1])
    [] f = "concentrationOf" -> concentrationOf(a[1])
    [] f = "sortStep" -> sortStep(a[1], a[2], a[3])
    [] f = "sumStep" -> sumStep(a[1], a[2], a[3])
    [] f = "minStep" -> minStep(a[1], a[2], a[3])
    [] f = "maxStep" -> maxStep(a[1], a[2], a[3])
    [] f = "nmToward" -> nmToward(a[1], a[2], a[3])
    [] f = "nmStep" -> nmStep(a[1], a[2])
    [] f = "nmIteration" -> nmIteration(a[1], a[2])
    [] f = "ssrStep" -> ssrStep(a[1], a[2], a[3])
    [] f = "sstStep" -> sstStep(a[1], a[2], a[3])
    [] f = "backtrack" -> backtrack(a[1], a[2])
    [] f = "gdIteration" -> gdIteration(a[1], a[2])
    [] f = "meshBest" -> meshBest(a[1], a[2], a[3])
    [] f = "psSweepStep" -> psSweepStep(a[1], a[2], a[3])
    [] f = "psIteration" -> psIteration(a[1], a[2])
    [] f = "aucStep" -> aucStep(a[1], a[2], a[3])
    [] f = "ic50SeedLoop" -> ic50SeedLoop(a[1], a[2], a[3])
    [] f = "fitCurve" -> fitCurve(a[1], a[2], a[3], a[4], a[5])
    [] f = "calculateMetrics" -> calculateMetrics(a[1], a[2], a[3], a[4])
    [] f = "fitMonophasicForIC50" -> fitMonophasicForIC50(a[1], a[2], a[3])
    [] f = "getSortedDataPoints" -> getSortedDataPoints(a[1])
    [] f = "objectiveOutcome" -> objectiveOutcome(a[1])
    [] f = "gdOutcome" -> gdOutcome(a[1])
    [] f = "nmOutcome" -> nmOutcome(a[1])
    [] f = "case1Outcome" -> case1Outcome(a[1], a[2])
    [] f = "projectOutcome" -> projectOutcome(a[1], a[2])
    [] f = "modelOutcome" -> modelOutcome(a[1])
    [] f = "guessOutcome" -> guessOutcome(a[1])
    [] f = "roundTripOutcome" -> roundTripOutcome(a[1])
    [] f = "meshOutcome" -> meshOutcome(a[1])
    [] f = "computeGrittyGuess" -> computeGrittyGuess(a[1], a[2], a[3])
    [] f = "case1MeshPattern" -> case1MeshPattern(a[1], a[2])
    [] f = "case1Pass" -> case1Pass(a[1], a[2])
    [] f = "meshEval" -> meshEval(a[1], a[2], a[3], a[4], a[5], a[6])
    [] f = "finiteDiffGrad" -> finiteDiffGrad(a[1], a[2], a[3])
    [] f = "gdFirstTrial" -> gdFirstTrial(a[1], a[2])
    [] f = "fitCase1Strategy" -> fitCase1Strategy(a[1], a[2], a[3], a[4], a[5])
    [] f = "hashStep" -> hashStep(a[1], a[2], a[3])
    [] f = "legacyFitCurve" -> legacyFitCurve(a[1])
    [] f = "legacyPushed" -> legacyPushed(a[1], a[2])
    [] f = "legacyHillFunction" -> legacyHillFunction(a[1], a[2])
    [] f = "legacyNelderMead" -> legacyNelderMead(a[1], a[2], a[3])
    [] f = "legacyCalculateMetrics" -> legacyCalculateMetrics(a[1])
    [] f = "createDataHash" -> createDataHash(a[1])
    [] f = "randomInRange" -> randomInRange(a[1], a[2], a[3], a[4])
    [] f = "legacyFreshCurve" -> legacyFreshCurve(a[1])

(***************************************************************************)
(* State.  The first five variables are the fields of DDRCurveFittingApp   *)
(* (app.js); call is the application of a DDRModels function under study:  *)
(* its name, its arguments, and its results once it has run.               *)
(***************************************************************************)
VARIABLES dataPoints, fittedCurve, fitType, algorithm, metrics, call, legacy

\* legacy is the object of the earlier class DDRCurveFitting
vars == <<dataPoints, fittedCurve, fitType, algorithm, metrics, call, legacy>>
appVars == <<dataPoints, fittedCurve, fitType, algorithm, metrics, legacy>>

FitTypes == {"monophasic", "biphasic"}
Algorithms == {"huber", "hill"}
NoCall == [op |-> "none", pc |-> "done", in |-> <<>>, out |-> <<>>]

\* the constructor of DDRCurveFittingApp
AppInit ==
  /\ dataPoints = <<>>
  /\ fittedCurve = NullCurve
  /\ fitType = "monophasic"
  /\ algorithm = "huber"
  /\ metrics = NullMetrics
  /\ legacy = DDRCurveFitting

\* The clicks explored: the click that follows n points lands in a dose column
\* of its own, at one of a few heights; the columns are not visited in order of
\* dose, so dataPoints is not sorted.
Columns == <<Num(-1, 0), Num(-3, 0), One, Num(-2, 0), Zero, Two>>
Heights ==
  <<{Num(50, 0), Num(60, 0), Num(40, 0), Num(70, 0), Num(30, 0)}, {Num(95, 0)},
    {Num(5, 0)}, {Num(90, 0)}, {Num(10, 0)}, {Num(40, 0)}>>
Clicks(n) ==
  {[logValue |-> Columns[(n % Len(Columns)) + 1], percent |-> h] :
     h \in Heights[(n % Len(Heights)) + 1]}

\* this.fittedCurve and this.metrics take the results of fitCurve
Fitted(fit) == fittedCurve' = fit.fittedCurve /\ metrics' = fit.metrics

\* the handler pushes the point, then fitCurve() runs on the new list
Pushed(points, rnd) ==
  /\ dataPoints' = points
  /\ \E fit \in {fitCurve_(points, fitType, algorithm, metrics, rnd)} : Fitted(fit)

onCanvasClick ==
  /\ Len(dataPoints) < MaxPoints
  /\ \E click \in Clicks(Len(dataPoints)), rnd \in randomIndices(fitType, AppConfig) :
       Pushed(Append(dataPoints, clickedPoint(click)), rnd)
  /\ UNCHANGED <<fitType, algorithm, call, legacy>>

\* the fit type toggle without the call of fitCurve
fitTypeToggleNoFit ==
  /\ fitType' = IF fitType = "monophasic" THEN "biphasic" ELSE "monophasic"
  /\ UNCHANGED <<dataPoints, algorithm, fittedCurve, metrics, call, legacy>>

fitTypeToggle ==
  /\ fitType' = IF fitType = "monophasic" THEN "biphasic" ELSE "monophasic"
  /\ \E rnd \in randomIndices(fitType', AppConfig) :
       \E fit \in {fitCurve_(dataPoints, fitType', algorithm, metrics, rnd)} : Fitted(fit)
  /\ UNCHANGED <<dataPoints, algorithm, call, legacy>>

\* the algorithm toggle without the call of fitCurve
algoToggleNoFit ==
  /\ algorithm' = IF algorithm = "huber" THEN "hill" ELSE "huber"
  /\ UNCHANGED <<dataPoints, fitType, fittedCurve, metrics, call, legacy>>

algoToggle ==
  /\ algorithm' = IF algorithm = "huber" THEN "hill" ELSE "huber"
  /\ \E rnd \in randomIndices(fitType, AppConfig) :
       \E fit \in {fitCurve_(dataPoints, fitType, algorithm', metrics, rnd)} : Fitted(fit)
  /\ UNCHANGED <<dataPoints, fitType, call, legacy>>

resetKeepsMetrics ==
  /\ dataPoints' = <<>>
  /\ fittedCurve' = NullCurve
  /\ UNCHANGED <<metrics, fitType, algorithm, call, legacy>>

reset ==
  /\ dataPoints' = <<>>
  /\ fittedCurve' = NullCurve
  /\ metrics' = NullMetrics
  /\ UNCHANGED <<fitType, algorithm, call, legacy>>

Init == AppInit /\ call = NoCall
Next == onCanvasClick \/ fitTypeToggle \/ algoToggle \/ reset
Spec == Init /\ [][Next]_vars

(***************************************************************************)
(* Applications of objectiveFunction                                       *)
(***************************************************************************)
Pt(c, v) == [concentration |-> c, viability |-> v]

\* a configuration with other bounds than the default ones
NarrowConfig ==
  [DDRConfig EXCEPT !.bounds = [eInf |-> [min |-> Num(1, -1), max |-> Num(9, -1)],
                                hillSlope |-> [min |-> Half, max |-> Num(3, 0)],
                                ec50 |-> [min |-> Num(-25, -1), max |-> Num(15, -1)]]]
Configs == {DDRConfig, NarrowConfig}

SlopeValues == {Num(15, -1), Zero, Num(5, 0), Num(-1, -1), Num(501, -2), Num(3, 0)}
EInfValues == {Num(5, -2), Zero, One, Num(-1, -2), Num(101, -2), Num(9, -1)}
Ec50Values ==
  {Num(1, -1), Num(1, -8), Num(1, 8), Zero, Num(-1, 0), Num(999, -11), Num(101, 6),
   Num(316, -5), Num(317, -1), Num(9, 0), Num(85, -1)}
Triples == {<<hs, e, c>> : hs \in SlopeValues, e \in EInfValues, c \in Ec50Values}
SecondPhases ==
  {<<Num(15, -1), Num(5, -2), Num(1, -1)>>, <<Num(-1, -1), Num(5, -2), Num(1, -1)>>,
   <<Num(15, -1), Num(101, -2), Num(1, -1)>>, <<Num(15, -1), Num(5, -2), Zero>>,
   <<Num(15, -1), Num(5, -2), Num(-1, 0)>>, <<Num(15, -1), Num(5, -2), Num(101, 6)>>}
ParamVectors(type) ==
  IF type = "biphasic"
  THEN {p \o q : p \in {t \in Triples : t[1] # Zero /\ t[2] # Zero}, q \in SecondPhases}
  ELSE Triples

ScenarioPoints ==
  <<Pt(Num(1, -3), Num(100, 0)), Pt(Num(1, -2), Num(95, 0)), Pt(Num(1, -1), Num(50, 0)),
    Pt(One, Num(10, 0)), Pt(Ten, Num(5, 0))>>
DataSets == {<<>>, <<Pt(One, Num(40, 0))>>, ScenarioPoints}

ObjectiveInputs ==
  {[params |-> p, dataPoints |-> d, fitType |-> t, config |-> c, algo |-> a] :
     p \in ParamVectors("monophasic"), d \in DataSets, t \in {"monophasic"},
     c \in Configs, a \in Algorithms}
  \cup
  {[params |-> p, dataPoints |-> d, fitType |-> t, config |-> c, algo |-> a] :
     p \in ParamVectors("biphasic"), d \in DataSets, t \in {"biphasic"},
     c \in Configs, a \in {"huber"}}

Ready(op, inputs) == {[op |-> op, pc |-> "ready", in |-> i, out |-> <<>>] : i \in inputs}
Pending(op) == call.op = op /\ call.pc = "ready"
Done(op) == call.op = op /\ call.pc = "done"
Return(result) == call' = [call EXCEPT !.pc = "done", !.out = result]

\* data sets of 1 to 7 points and configurations of the positional weights
SevenPoints ==
  <<Pt(Num(1, -3), Num(100, 0)), Pt(Num(1, -2), Num(90, 0)), Pt(Num(3, -2), Num(80, 0)),
    Pt(Num(1, -1), Num(70, 0)), Pt(One, Num(30, 0)), Pt(Ten, Num(20, 0)),
    Pt(Hundred, Num(10, 0))>>
WithWeights(w) == [DDRConfig EXCEPT !.robust.weights = w]
WeightSettings ==
  {[endpoints |-> e, midpoint |-> m, enableMidpointForMonophasic |-> b] :
     e \in {Ten, Two}, m \in {Ten, Num(3, 0)}, b \in BOOLEAN}
WeightInputs ==
  {[params |-> p, dataPoints |-> SubSeq(SevenPoints, 1, n), fitType |-> "monophasic",
    config |-> WithWeights(w), algo |-> a] :
     p \in {<<Num(15, -1), Num(5, -2), Num(1, -1)>>, <<One, Num(2, -1), Num(5, 0)>>},
     n \in 1..7, w \in WeightSettings, a \in Algorithms}
  \cup
  {[params |-> p, dataPoints |-> SubSeq(SevenPoints, 1, n), fitType |-> "biphasic",
    config |-> WithWeights(w), algo |-> a] :
     p \in {<<Num(12, -1), Num(5, -2), Num(1, -2), Num(15, -1), Num(1, -1), One>>},
     n \in 1..7, w \in WeightSettings, a \in Algorithms}

objectiveCall ==
  /\ Pending("objectiveFunction")
  /\ Return(objectiveOutcome_(call.in))
  /\ UNCHANGED appVars

InitObjective ==
  /\ AppInit
  /\ call \in Ready("objectiveFunction", ObjectiveInputs \cup WeightInputs)
NextObjective == objectiveCall
SpecObjective == InitObjective /\ [][NextObjective]_vars

\* C1: whenever a parameter of the vector is outside its configured bound
\* (a hill slope or an eInf below min or above max, or an ec50 that is <= 0
\* or whose log10 is below ec50.min or above ec50.max), objectiveFunction
\* returns exactly 1e12 and has summed no residual, for both fit types and
\* every dataset including the empty one.
Outside(v, range) == Lt(v, range.min) \/ Gt(v, range.max)
Ec50Outside(c, range) == Le(c, Zero) \/ Outside(Log10_(c), range)
SomeParamOutside(p, type, b) ==
  \/ Outside(p[1], b.hillSlope) \/ Outside(p[2], b.eInf) \/ Ec50Outside(p[3], b.ec50)
  \/ /\ type = "biphasic"
     /\ \/ Outside(p[4], b.hillSlope) \/ Outside(p[5], b.eInf)
        \/ Ec50Outside(p[6], b.ec50)
InvC1 ==
  (Done("objectiveFunction")
     /\ SomeParamOutside(call.in.params, call.in.fitType, call.in.config.bounds))
  => (call.out.value = Num(1, 12) /\ call.out.summed = 0)
WitC1 ==
  /\ Done("objectiveFunction")
  /\ call.in.fitType = "biphasic"
  /\ call.in.dataPoints = ScenarioPoints
  /\ Lt(call.in.params[6], Zero)
  /\ ~SomeParamOutside(SubSeq(call.in.params, 1, 3), "monophasic", call.in.config.bounds)
  /\ call.out.value = Num(1, 12)

\* C2: in every state reachable by clicks, toggles and resets, fewer than
\* minPointsForFit data points imply that fittedCurve is null and that the four
\* metrics are null.
InvC2 ==
  Len(dataPoints) < AppConfig.fitting.minPointsForFit
    => (fittedCurve = NullCurve /\ metrics = NullMetrics)
\* four points, both toggles off their defaults, reached after fits and a reset
\* or by toggling below the minimum
WitC2 ==
  /\ Len(dataPoints) = AppConfig.fitting.minPointsForFit - 1
  /\ fitType = "biphasic"
  /\ algorithm = "hill"
  /\ fittedCurve = NullCurve
  /\ metrics = NullMetrics


(***************************************************************************)
(* Applications of calculateMetrics, of getSortedDataPoints followed by    *)
(* calculateMetrics, and of fitMonophasicForIC50                           *)
(***************************************************************************)
WithMinPoints(k) == [DDRConfig EXCEPT !.fitting.minPointsForFit = k]
MinPointsValues == {0, 3, 5}

MonoCurve(hs, eInf, ec50) == [type |-> "monophasic", params |-> <<hs, eInf, ec50>>]
MonoCurves ==
  {MonoCurve(Num(15, -1), Num(5, -2), Num(1, -1)),
   MonoCurve(Num(15, -1), Num(6, -1), Num(1, -1)),
   MonoCurve(Num(15, -1), Half, Num(1, -1)),
   MonoCurve(Zero, Num(2, -1), One),
   MonoCurve(Num(1, -3), Num(49, -2), One),
   MonoCurve(Num(3, 0), Zero, One)}
BiCurve ==
  [type |-> "biphasic",
   params |-> <<Num(12, -1), Num(5, -2), Num(1, -2), Num(15, -1), Num(1, -1), One>>]

\* sorted point lists of 0, 1, 3, 4, 5 and 6 points; FlatPoints has one
\* viability for all its points
FlatPoints ==
  <<Pt(Num(1, -3), Num(50, 0)), Pt(Num(1, -2), Num(50, 0)), Pt(Num(1, -1), Num(50, 0)),
    Pt(One, Num(50, 0)), Pt(Ten, Num(50, 0))>>
\* five points with the same viability 33.3, whose sum is rounded
FlatThirds ==
  <<Pt(Num(1, -3), Num(333, -1)), Pt(Num(1, -2), Num(333, -1)), Pt(Num(1, -1), Num(333, -1)),
    Pt(One, Num(333, -1)), Pt(Ten, Num(333, -1))>>
SortedLists ==
  {<<>>, SubSeq(ScenarioPoints, 1, 1), SubSeq(ScenarioPoints, 2, 4),
   SubSeq(ScenarioPoints, 1, 4), ScenarioPoints,
   Append(ScenarioPoints, Pt(Hundred, Num(2, 0))), FlatPoints, FlatThirds}

MetricsInputs ==
  {[fittedCurve |-> c, sortedPoints |-> d, config |-> WithMinPoints(k), algo |-> "huber"] :
     c \in MonoCurves \cup {NullCurve}, d \in SortedLists, k \in MinPointsValues}
  \cup
  {[fittedCurve |-> BiCurve, sortedPoints |-> d, config |-> WithMinPoints(k), algo |-> a] :
     d \in {SubSeq(ScenarioPoints, 1, 1), SubSeq(ScenarioPoints, 1, 2), ScenarioPoints,
            FlatPoints},
     k \in {1, 3, 5}, a \in Algorithms}

metricsCall ==
  /\ Pending("calculateMetrics")
  /\ Return(calculateMetrics_(call.in.fittedCurve, call.in.sortedPoints, call.in.config,
                              call.in.algo))
  /\ UNCHANGED appVars

\* Five points in every arrival order: TiedPoints has two points at
\* concentration 1, ScenarioPoints has distinct concentrations.
TiedPoints ==
  <<Pt(Num(1, -2), Num(50, 0)), Pt(One, Num(10, 0)), Pt(One, Num(90, 0)),
    Pt(Ten, Num(50, 0)), Pt(Hundred, Num(20, 0))>>
Orders(pts) == {Array([i \in 1..Len(pts) |-> pts[p[i]]]) : p \in Permutations(1..Len(pts))}
ReorderInputs ==
  {[first |-> pts, second |-> o, fittedCurve |-> MonoCurve(Num(15, -1), Num(5, -2), One)] :
     pts \in {TiedPoints}, o \in Orders(TiedPoints)}
  \cup
  {[first |-> pts, second |-> o, fittedCurve |-> MonoCurve(Num(15, -1), Num(5, -2), One)] :
     pts \in {ScenarioPoints}, o \in Orders(ScenarioPoints)}

\* the metrics of the two arrival orders of the same points
reorderCall ==
  /\ Pending("reorder")
  /\ Return([o \in {"first", "second"} |->
               calculateMetrics_(call.in.fittedCurve, getSortedDataPoints_(call.in[o]),
                                 DDRConfig, "huber")])
  /\ UNCHANGED appVars

HelperPoints ==
  <<Pt(Num(1, -3), Num(95, 0)), Pt(Num(1, -2), Num(90, 0)), Pt(Num(1, -1), Num(70, 0)),
    Pt(One, Num(10, 0)), Pt(Ten, Num(5, 0))>>
HelperInputs ==
  {[sortedPoints |-> d, config |-> DDRConfig] :
     d \in {<<>>, SubSeq(ScenarioPoints, 1, 1), HelperPoints, ScenarioPoints, FlatPoints}}

\* fitMonophasicForIC50 with each of the two algorithms
helperCall ==
  /\ Pending("fitMonophasicForIC50")
  /\ Return([a \in Algorithms |->
               fitMonophasicForIC50_(call.in.sortedPoints, call.in.config, a)])
  /\ UNCHANGED appVars

InitMetrics ==
  /\ AppInit
  /\ call \in Ready("calculateMetrics", MetricsInputs) \cup Ready("reorder", ReorderInputs)
              \cup Ready("fitMonophasicForIC50", HelperInputs)
NextMetrics == metricsCall \/ reorderCall \/ helperCall
SpecMetrics == InitMetrics /\ [][NextMetrics]_vars


\* the gate of calculateMetrics as configured: a null curve, or fewer points
\* than the configured minPointsForFit
BelowGate(in) ==
  in.fittedCurve = NullCurve \/ Len(in.sortedPoints) < in.config.fitting.minPointsForFit

\* C3: calculateMetrics returns four nulls whenever the curve is null or the
\* number of points is below the configured minPointsForFit, for every
\* configured value; in every other case rSquared and auc are non-null.
CexC3 ==
  Done("calculateMetrics")
    => IF BelowGate(call.in) THEN call.out = NullMetrics
       ELSE call.out.rSquared # Null /\ call.out.auc # Null

\* C5: for a monophasic curve the reported ic50 is null when eInf >= 0.5, when
\* hillSlope is 0 and whenever the closed form is not finite; a non-null ic50
\* is a finite number.
CexC5 ==
  (Done("calculateMetrics") /\ call.in.fittedCurve.type = "monophasic")
    => /\ Ge(call.in.fittedCurve.params[2], Half) => call.out.ic50 = Null
       /\ call.in.fittedCurve.params[1] = Zero => call.out.ic50 = Null
       /\ call.out.ic50 # Null => isFinite(call.out.ic50)

\* C6: fitMonophasicForIC50 returns the same parameter vector for the
\* algorithms 'huber' and 'hill' on the same points and configuration.
CexC6 == Done("fitMonophasicForIC50") => call.out["huber"] = call.out["hill"]

\* C7: the AUC of calculateMetrics on the sorted points is the same for every
\* arrival order of the same points, also with several points at one
\* concentration.
CexC7 == Done("reorder") => call.out["first"].auc = call.out["second"].auc


\* the orchestration on a sorted copy of the points: fitCase1Strategy, then
\* calculateMetrics on the fitted curve
Orchestrated(points, type, algo, rnd) ==
  LET sorted == getSortedDataPoints_(points)
      params == fitCase1Strategy_(type, sorted, AppConfig, algo, rnd)
      curve == [type |-> type, params |-> params]
  IN eager(<<sorted, params>>,
           [fittedCurve |-> curve,
            metrics |-> calculateMetrics_(curve, sorted, AppConfig, algo)])

\* C4: whenever at least minPointsForFit points are present, fittedCurve and
\* metrics are the result of the full orchestration on the current points
\* with the current fit type and the current algorithm: every click and
\* toggle has replaced them, none has kept an earlier result.
InvC4 ==
  Len(dataPoints) >= AppConfig.fitting.minPointsForFit
    => \E rnd \in randomIndices(fitType, AppConfig) :
         \E fit \in {Orchestrated(dataPoints, fitType, algorithm, rnd)} :
           fittedCurve = fit.fittedCurve /\ metrics = fit.metrics
\* both toggles off their defaults with a fit on display
WitC4 ==
  /\ Len(dataPoints) = AppConfig.fitting.minPointsForFit
  /\ fitType = "biphasic"
  /\ algorithm = "hill"
  /\ fittedCurve.type = "biphasic"
  /\ metrics.rSquared # Null


(***************************************************************************)
(* Applications of lossByName, huberLoss and squaredLoss                   *)
(***************************************************************************)
\* 'undefined' stands for a missing name, the others are strings
LossNames == {"huber", "hill", "ols", "undefined", "Huber", "lad"}
\* the thresholds have mantissas that halve without rounding, as every
\* double does
LossDeltas == {Num(5, -2), One, Num(2, -1), Two, Num(1, 200), Num(1, -200)}
LossResiduals ==
  LossDeltas \cup {Zero, Num(2, -2), Num(-2, -2), Num(-5, -2), Num(1, -1), Num(-3, -1),
                   Num(-1, 0), Num(3, 0), Num(-25, -1)}
LossInputs ==
  {[name |-> n, residual |-> r, delta |-> d] :
     n \in LossNames, r \in LossResiduals, d \in LossDeltas}

lossCall ==
  /\ Pending("lossByName")
  /\ Return([byName |-> lossByName(call.in.name, call.in.residual, call.in.delta),
             huber |-> huberLoss(call.in.residual, call.in.delta),
             squared |-> squaredLoss(call.in.residual)])
  /\ UNCHANGED appVars

\* parameters with hillSlope > 0, ec50 > 0 and 0 <= eInf <= 1, evaluated at
\* their ec50 and at other concentrations
CurveSlopes == {Half, One, Num(15, -1), Num(5, 0)}
CurvePlateaus == {Zero, Num(5, -2), Num(2, -1), Num(333, -3), Half, Num(9, -1), One}
CurveEc50s == {Num(1, -3), Num(1, -1), Num(37, -2), One, Num(85, -1), Num(1, 8)}
CurveTriples == {<<hs, e, c>> : hs \in CurveSlopes, e \in CurvePlateaus, c \in CurveEc50s}
CurveInputs ==
  {[x |-> x, params |-> p, fitType |-> "monophasic"] :
     x \in CurveEc50s, p \in CurveTriples}
  \cup
  {[x |-> x, params |-> p \o q, fitType |-> "biphasic"] :
     x \in {Num(1, -1), Num(37, -2), Ten},
     p \in {t \in CurveTriples : t[1] = Num(15, -1) /\ t[3] = Num(1, -1)},
     q \in {t \in CurveTriples : t[1] = One /\ t[3] = Num(37, -2)}}

hillCall ==
  /\ Pending("hillFunction")
  /\ Return(modelOutcome_(call.in))
  /\ UNCHANGED appVars

InitLoss ==
  /\ AppInit
  /\ call \in Ready("lossByName", LossInputs) \cup Ready("hillFunction", CurveInputs)
NextLoss == lossCall \/ hillCall
SpecLoss == InitLoss /\ [][NextLoss]_vars

AtThreshold == Done("lossByName") /\ call.in.residual = call.in.delta

\* C8: at residual r = delta (delta > 0), huberLoss(r, delta) equals
\* squaredLoss(r) exactly.
CexC8 == AtThreshold => call.out.huber = call.out.squared

\* C8 as amended: at r = delta, huberLoss(r, delta) is the common value of its
\* two branches, 0.5 * r * r = delta * (|r| - 0.5 * delta); it differs from
\* squaredLoss(r) unless r * r overflows or underflows.
InvC8 ==
  AtThreshold
    => /\ call.out.huber
            = Mul(call.in.delta, Sub(Abs(call.in.residual), Mul(Half, call.in.delta)))
       /\ (isFinite(call.out.squared) /\ call.out.squared # Zero)
            => call.out.huber # call.out.squared
WitC8 ==
  /\ AtThreshold
  /\ call.in.delta = Num(5, -2)
  /\ call.out.huber = Num(125, -5)
  /\ call.out.squared = Num(25, -4)


(***************************************************************************)
(* Applications of projectToBounds                                         *)
(***************************************************************************)
ProjectionInputs ==
  {[p |-> p, fitType |-> "monophasic", config |-> c] :
     p \in ParamVectors("monophasic"), c \in Configs}
  \cup
  {[p |-> p \o q, fitType |-> "biphasic", config |-> c] :
     p \in {t \in Triples : t[1] = Num(5, 0) /\ t[2] = Num(-1, -2)}, q \in SecondPhases,
     c \in Configs}

\* the projection of p, the projection of that, and the objective at the
\* projection for the scenario points
projectCall ==
  /\ Pending("projectToBounds")
  /\ Return(projectOutcome_(call.in, ScenarioPoints))
  /\ UNCHANGED appVars

InitProjection == AppInit /\ call \in Ready("projectToBounds", ProjectionInputs)
NextProjection == projectCall
SpecProjection == InitProjection /\ [][NextProjection]_vars

Within(v, range) == Ge(v, range.min) /\ Le(v, range.max)
TripleWithin(p, b) ==
  Within(p[1], b.hillSlope) /\ Within(p[2], b.eInf) /\ Within(Log10_(p[3]), b.ec50)

\* C9: every projected point has each hill slope, each eInf and the log10 of
\* each ec50 within its bounds, also when an ec50 of the input is zero or
\* negative, so the objective is never the 1e12 penalty at a projected point.
CexC9 ==
  Done("projectToBounds")
    => /\ TripleWithin(call.out.once, call.in.config.bounds)
       /\ call.in.fitType = "biphasic"
            => TripleWithin(SubSeq(call.out.once, 4, 6), call.in.config.bounds)
       /\ call.out.value # Num(1, 12)


DescentStarts ==
  {<<hs, e, c>> : hs \in {Num(15, -1), One, Num(6, 0), Zero},
                  e \in {Num(5, -2), Num(3, -1), Num(-1, -1)},
                  c \in {Num(1, -1), One, Num(9, 0), Num(85, -1), Num(-1, 0), Num(2, -2)}}
DescentInputs ==
  {[p0 |-> p, sortedPoints |-> d, fitType |-> "monophasic", config |-> AppConfig,
    algo |-> a] :
     p \in DescentStarts, d \in {ScenarioPoints, HelperPoints}, a \in Algorithms}
  \cup
  {[p0 |-> p \o q, sortedPoints |-> ScenarioPoints, fitType |-> "biphasic",
    config |-> AppConfig, algo |-> "huber"] :
     p \in {<<Num(12, -1), Num(5, -2), Num(1, -2)>>, <<Num(12, -1), Num(5, -2), Num(9, 0)>>},
     q \in {<<Num(15, -1), Num(1, -1), One>>, <<Num(15, -1), Num(1, -1), Num(85, -1)>>}}

descentCall ==
  /\ Pending("projectedGradDescent")
  /\ Return(gdOutcome_(call.in))
  /\ UNCHANGED appVars

\* simplices of nelderMead: the jittered simplex of fitMonophasicForIC50
\* around the centres below (those with hill slope 6 lie outside the bounds),
\* under several iteration caps
SimplexCentres ==
  {<<hs, e, c>> : hs \in {Num(15, -1), One, Num(3, 0), Num(6, 0)},
                  e \in {Num(5, -2), Num(3, -1)},
                  c \in {Num(1, -1), One, Num(1, -2)}}
IterationCaps == {1, 3, 100000}
SimplexInputs ==
  {[initialSimplex |-> buildJitteredSimplex(c, "monophasic", Num(1, -1)),
    sortedPoints |-> d, fitType |-> "monophasic", algo |-> a,
    config |-> [AppConfig EXCEPT !.optimizer.maxIterations = cap]] :
     c \in SimplexCentres, d \in {ScenarioPoints, HelperPoints}, a \in Algorithms,
     cap \in IterationCaps}

simplexCall ==
  /\ Pending("nelderMead")
  /\ Return(nmOutcome_(call.in))
  /\ UNCHANGED appVars

\* fits by fitCase1Strategy under several improvement tolerances
ImprovementTols == {Num(1, -6), Num(1, -1), Num(9, -1)}
StrategyInputs ==
  {[fitType |-> t, sortedPoints |-> d, algo |-> a,
    config |-> [AppConfig EXCEPT !.optimizer.improvementTol = tol]] :
     t \in FitTypes, d \in {ScenarioPoints, HelperPoints, FlatPoints},
     a \in Algorithms, tol \in ImprovementTols}
  \cup
  {[fitType |-> "monophasic", sortedPoints |-> d, algo |-> a,
    config |-> [AppConfig EXCEPT !.optimizer.improvementTol = Num(9, -1),
                                 !.mesh.maxCandidates = MaxCandidates \div 2]] :
     d \in {ScenarioPoints, FlatPoints}, a \in Algorithms}
  \cup
  {[fitType |-> "biphasic", sortedPoints |-> d, algo |-> "huber",
    config |-> [AppConfig EXCEPT !.optimizer.improvementTol = Num(9, -1),
                                 !.mesh.maxCandidates = 5000]] :
     d \in {ScenarioPoints, FlatPoints}}

\* two outcomes of the draws of Math.random in meshEval, as the distinct grid
\* indices they would add to idxs: the first positions of the grid in
\* ascending order and the last ones in descending order
twoDraws(n, k) ==
  LET len == IF n > k THEN k ELSE n
  IN <<Array([i \in 1..len |-> i - 1]), Array([i \in 1..len |-> n - i])>>
drawsFor(type, config) ==
  twoDraws(gridSize(meshLevels(type, config), 1), OrElseI(config.mesh.maxCandidates, 5000))

strategyCall ==
  /\ Pending("fitCase1Strategy")
  /\ Return(case1Outcome_(call.in, drawsFor(call.in.fitType, call.in.config)))
  /\ UNCHANGED appVars

\* applications of meshEval: guesses inside the bounds, on a corner of the
\* grid, with the value of a grid point, and outside the bounds; grids below
\* and above the cap, the latter with each explored outcome of the draws
MeshGuesses ==
  {<<Num(15, -1), Num(5, -2), Num(1, -1)>>, <<Zero, Zero, One>>,
   <<Zero, Zero, Num(1, -8)>>, <<Num(5, 0), One, Num(1, 8)>>,
   <<Num(6, 0), Num(5, -2), Num(1, -1)>>, <<One, Half, One>>}
MeshCaps == {MaxCandidates, MaxCandidates \div 2, 3}
MeshConfigs == {[AppConfig EXCEPT !.mesh.maxCandidates = k] : k \in MeshCaps}
MeshInputs ==
  UNION {{[fitType |-> "monophasic", guess |-> g, sortedPoints |-> d, config |-> c,
           algo |-> a, rnd |-> r] :
            g \in MeshGuesses, d \in {ScenarioPoints, FlatPoints}, a \in Algorithms,
            r \in randomIndices("monophasic", c)} : c \in MeshConfigs}
  \cup
  {[fitType |-> "biphasic", guess |-> g \o <<Num(15, -1), Num(1, -1), One>>,
    sortedPoints |-> ScenarioPoints, config |-> AppConfig, algo |-> "huber", rnd |-> r] :
     g \in MeshGuesses, r \in randomIndices("biphasic", AppConfig)}

meshCall ==
  /\ Pending("meshEval")
  /\ Return(meshOutcome_(call.in))
  /\ UNCHANGED appVars

InitOptim ==
  /\ AppInit
  /\ call \in Ready("projectedGradDescent", DescentInputs)
              \cup Ready("nelderMead", SimplexInputs)
              \cup Ready("fitCase1Strategy", StrategyInputs)
              \cup Ready("meshEval", MeshInputs)
NextOptim == descentCall \/ simplexCall \/ strategyCall \/ meshCall
SpecOptim == InitOptim /\ [][NextOptim]_vars

CexC12 ==
  Done("nelderMead")
    => \/ call.out.iterations >= nmMaxIterations(call.in.config)
       \/ Lt(Sub(call.out.largest, call.out.smallest), nmTolerance(call.in.config))


\* the test of fitCase1Strategy on the values of the guess and of the refined
\* point: TRUE when the gradient attempt did not improve sufficiently
Insufficient(out, config) ==
  ~Lt(MathMin(out.refinedValue, out.guessValue),
      Mul(out.guessValue, Sub(One, config.optimizer.improvementTol)))

\* C13: fitCase1Strategy returns the result of meshEval seeded with the guess
\* followed by patternSearch exactly when min(refinedValue, guessValue) is not
\* strictly less than guessValue * (1 - improvementTol); otherwise the value
\* of the refined point is strictly below the guess's value and the refined
\* point, never the guess, is returned.
InvC13 ==
  Done("fitCase1Strategy")
    => IF Insufficient(call.out, call.in.config)
       THEN call.out.result = call.out.meshPattern
       ELSE /\ Lt(call.out.refinedValue, call.out.guessValue)
            /\ call.out.result = call.out.refined
            /\ call.out.result # call.out.guess
\* a fit that keeps the refined point although the fallback gives another one,
\* under the default tolerance
WitC13 ==
  /\ Done("fitCase1Strategy")
  /\ ~Insufficient(call.out, call.in.config)
  /\ call.in.config.optimizer.improvementTol = Num(1, -6)
  /\ call.out.meshPattern # call.out.refined
  /\ call.out.result = call.out.refined


\* the weight described for the 0-based index i of n points
statedWeight(i, n, type, weights) ==
  IF type = "monophasic" /\ weights.enableMidpointForMonophasic /\ i = n \div 2
  THEN weights.midpoint
  ELSE IF i \in {0, 1, n - 2, n - 1} THEN weights.endpoints ELSE One

\* the sum of statedWeight * loss over the first k points, in index order
RECURSIVE statedTotal(_, _, _)
statedTotal(in, losses, k) ==
  IF k = 0 THEN Zero
  ELSE Add(statedTotal(in, losses, k - 1),
           Mul(statedWeight(k - 1, Len(losses), in.fitType, in.config.robust.weights),
               losses[k]))

\* C14: the objective is the sum over the n sorted points of weight * loss,
\* where the weight of index i is the midpoint weight if the fit is
\* monophasic, midpoint weighting is enabled and i = floor(n/2), otherwise the
\* endpoint weight if i is one of 0, 1, n-2, n-1, otherwise 1; biphasic fits
\* never apply the midpoint weight.
InvC14 ==
  (Done("objectiveFunction") /\ call.out.summed > 0)
    => call.out.value = statedTotal(call.in, call.out.losses, Len(call.out.losses))
\* four points, where index 2 is both the midpoint and an endpoint, with
\* different weights for the two and a loss at that index that is not zero
WitC14 ==
  /\ Done("objectiveFunction")
  /\ call.out.summed = 4
  /\ call.in.fitType = "monophasic"
  /\ call.in.config.robust.weights.enableMidpointForMonophasic
  /\ call.in.config.robust.weights.midpoint # call.in.config.robust.weights.endpoints
  /\ call.out.losses[3] # Zero
  /\ call.out.value = statedTotal(call.in, call.out.losses, 4)


\* the number of candidates of the mesh grid of a call and the cap on them
gridOf(in) == gridSize(meshLevels(in.fitType, in.config), 1)
capOf(in) == OrElseI(in.config.mesh.maxCandidates, 5000)

InvC16 ==
  (Done("calculateMetrics") /\ call.in.fittedCurve.type = "biphasic"
     /\ ~BelowGate(call.in))
    => /\ \A mono \in {fitMonophasicForIC50_(call.in.sortedPoints, call.in.config,
                                             call.in.algo)} :
            call.out.ic50 = IF mono = NullVector THEN Null ELSE mono[3]
       /\ call.out.rSquared # Null
       /\ call.out.auc # Null
       /\ call.out.emax # Null
\* one point under minPointsForFit = 1: the helper returns null
WitC16 ==
  /\ Done("calculateMetrics")
  /\ call.in.fittedCurve.type = "biphasic"
  /\ ~BelowGate(call.in)
  /\ Len(call.in.sortedPoints) = 1
  /\ call.out.ic50 = Null
  /\ call.out.auc = Zero
  /\ call.out.emax # Null


\* C17: lossByName returns huberLoss(residual, delta) if the name is exactly
\* 'huber'; for every other name ('hill', 'ols', undefined, any other string)
\* it returns the squared residual, whatever delta is.
InvC17 ==
  Done("lossByName")
    => call.out.byName = IF call.in.name = "huber" THEN call.out.huber
                         ELSE Mul(call.in.residual, call.in.residual)
\* the name 'hill' with a residual beyond delta, where the two losses differ
WitC17 ==
  /\ Done("lossByName")
  /\ call.in.name = "hill"
  /\ Gt(Abs(call.in.residual), call.in.delta)
  /\ call.out.byName = Mul(call.in.residual, call.in.residual)
  /\ call.out.byName # call.out.huber


\* the gate of calculateMetrics as the code evaluates it
PassesGate(in) ==
  in.fittedCurve # NullCurve
    /\ Len(in.sortedPoints) >= OrElseI(in.config.fitting.minPointsForFit, 5)
SameViabilities(pts) == \A i \in 1..Len(pts) : pts[i].viability = pts[1].viability

\* C18: when all observed viabilities are identical and the gate passes,
\* calculateMetrics reports rSquared exactly 0 for every fitted curve;
\* otherwise rSquared = 1 - SSR/SST on the percent scale.
CexC18 ==
  (Done("calculateMetrics") /\ PassesGate(call.in))
    => IF SameViabilities(call.in.sortedPoints)
       THEN call.out.rSquared = Zero
       ELSE call.out.rSquared
              = Sub(One, Div(ssrOf(call.in.sortedPoints, call.in.fittedCurve.type,
                                   call.in.fittedCurve.params),
                             sstOf(call.in.sortedPoints,
                                   meanViability(call.in.sortedPoints))))


\* a call of hillFunction at the ec50 of its parameters
AtEc50 ==
  Done("hillFunction") /\ call.in.fitType = "monophasic" /\ call.in.x = call.in.params[3]
\* a call of biphasicFunction
OnBiphasic == Done("hillFunction") /\ call.in.fitType = "biphasic"
Midpoint(eInf) == Div(Add(One, eInf), Two)

\* C19: for monophasic parameters with hillSlope > 0, ec50 > 0 and
\* 0 <= eInf <= 1, hillFunction at concentration = ec50 equals (1 + eInf)/2,
\* and biphasicFunction equals the product of hillFunction on the first and on
\* the second parameter triple.
CexC19 ==
  /\ AtEc50 => call.out.value = Midpoint(call.in.params[2])
  /\ OnBiphasic => call.out.value = Mul(call.out.phases[1], call.out.phases[2])

\* C19 as amended: hillFunction at concentration = ec50 equals
\* eInf + (1 - eInf)/2 as the floating-point operations evaluate it, which is
\* (1 + eInf)/2 up to rounding (two units in the last place of the result);
\* biphasicFunction equals the product of hillFunction on the two triples.
InvC19 ==
  /\ AtEc50
       => /\ call.out.value
               = Add(call.in.params[2], Div(Sub(One, call.in.params[2]), Two))
          /\ Le(Abs(Sub(call.out.value, Midpoint(call.in.params[2]))), Num(2, -3))
  /\ OnBiphasic => call.out.value = Mul(call.out.phases[1], call.out.phases[2])
\* a plateau for which the two expressions round differently
WitC19 ==
  /\ AtEc50
  /\ call.out.value # Midpoint(call.in.params[2])
  /\ call.out.value = Add(call.in.params[2], Div(Sub(One, call.in.params[2]), Two))


\* C20: in every state reachable by clicks, toggles and resets, if there are
\* at least minPointsForFit data points then fittedCurve is non-null, its type
\* is the selected fitType, its parameter vector has the length of that model,
\* and metrics.rSquared and metrics.auc are non-null.
InvC20 ==
  Len(dataPoints) >= AppConfig.fitting.minPointsForFit
    => /\ fittedCurve # NullCurve
       /\ fittedCurve.type = fitType
       /\ Len(fittedCurve.params) = IF fitType = "biphasic" THEN 6 ELSE 3
       /\ metrics.rSquared # Null
       /\ metrics.auc # Null
\* five points and the fit type toggled to biphasic
WitC20 ==
  /\ Len(dataPoints) = 5
  /\ fitType = "biphasic"
  /\ algorithm = "huber"
  /\ Len(fittedCurve.params) = 6
  /\ metrics.auc # Null

\* C28: the parameter vector that fitCase1Strategy returns never has a higher
\* objective value than the data-driven initial guess, obj(result) <=
\* obj(guess); on the refinement branch it is strictly lower.
InvC28 ==
  Done("fitCase1Strategy")
    => /\ Le(call.out.resultValue, call.out.guessValue)
       /\ ~Insufficient(call.out, call.in.config)
            => Lt(call.out.resultValue, call.out.guessValue)
\* a fit on the fallback branch whose mesh and pattern search result is
\* strictly better than the guess
WitC28 ==
  /\ Done("fitCase1Strategy")
  /\ Insufficient(call.out, call.in.config)
  /\ call.out.result # call.out.guess
  /\ Lt(call.out.resultValue, call.out.guessValue)

\* C22: nelderMead returns the best point found: the smallest vertex value of
\* the simplex never increases from one iteration to the next, and the
\* objective at the returned point is <= the objective at every vertex of
\* the initial simplex.
InvC22 ==
  Done("nelderMead")
    => /\ \A i \in 1..(Len(call.out.bests) - 1) :
            Le(call.out.bests[i + 1], call.out.bests[i])
       /\ \A i \in 1..Len(call.out.bests) : Le(call.out.smallest, call.out.bests[i])
       /\ call.out.resultValue = call.out.smallest
       /\ \A i \in 1..Len(call.out.initialValues) :
            Le(call.out.resultValue, call.out.initialValues[i])
\* a run of several iterations that ends strictly below every vertex of the
\* initial simplex
WitC22 ==
  /\ Done("nelderMead")
  /\ call.out.iterations >= 2
  /\ Len(call.out.bests) = call.out.iterations
  /\ \A i \in 1..Len(call.out.initialValues) :
       Lt(call.out.resultValue, call.out.initialValues[i])

\* C29: nelderMead is a pure function of its inputs: the vertex arrays of the
\* initial simplex passed by the caller have the same contents after the call
\* as before it.
CexC29 ==
  Done("nelderMead") => call.out.arrays = call.in.initialSimplex

\* C23: meshEval returns a point whose objective value equals the minimum over
\* the supplied guess and all evaluated candidates, the guess being kept on
\* ties; every evaluated candidate lies within the bounds; and the number of
\* candidates evaluated is min(product of (density_i + 1), maxCandidates),
\* with no candidate evaluated twice.
InvC23 ==
  Done("meshEval")
    => /\ call.out.bestValue = minSeq(<<call.out.guessValue>> \o call.out.vals)
       /\ Le(call.out.guessValue, call.out.bestValue) => call.out.best = call.in.guess
       /\ \A i \in 1..Len(call.out.candidates) :
            /\ TripleWithin(call.out.candidates[i], call.in.config.bounds)
            /\ call.in.fitType = "biphasic"
                 => TripleWithin(SubSeq(call.out.candidates[i], 4, 6),
                                 call.in.config.bounds)
       /\ Len(call.out.candidates) = IF gridOf(call.in) < capOf(call.in)
                                     THEN gridOf(call.in) ELSE capOf(call.in)
       /\ \A i, j \in 1..Len(call.out.candidates) :
            call.out.candidates[i] = call.out.candidates[j] => i = j
\* a grid above the cap, sampled, where the guess ties with the best of the
\* candidates and is kept
WitC23 ==
  /\ Done("meshEval")
  /\ gridOf(call.in) > capOf(call.in)
  /\ \E i \in 1..Len(call.out.vals) : call.out.vals[i] = call.out.guessValue
  /\ call.out.bestValue = call.out.guessValue
  /\ \A i \in 1..Len(call.out.candidates) : call.out.candidates[i] # call.in.guess

(***************************************************************************)
(* Applications of computeGrittyGuess                                      *)
(***************************************************************************)
\* sorted positive concentrations (the last ones below 1e-9), and
\* viabilities that bracket 50% at the first pair, at a later pair, at the
\* last pair, at a point with exactly 50%, or nowhere
GuessConcentrations ==
  {<<Num(333, -5), Num(134, -4), Num(1, -1), Num(707, -3), Ten>>,
   <<Num(1, -3), Num(1, -2), Num(1, -1), One, Ten>>,
   <<Num(5, -1), Num(5, -1), Num(5, -1), Num(850, -2), Num(850, -2)>>,
   <<Num(1, -12), Num(1, -11), Num(2, -11), Num(1, -10), Num(5, -10)>>}
GuessViabilities ==
  {<<Num(80, 0), Num(20, 0), Num(10, 0), Num(5, 0), Num(1, 0)>>,
   <<Num(50, 0), Num(90, 0), Num(40, 0), Num(30, 0), Num(20, 0)>>,
   <<Num(95, 0), Num(90, 0), Num(70, 0), Num(10, 0), Num(5, 0)>>,
   <<Num(100, 0), Num(90, 0), Num(80, 0), Num(70, 0), Num(50, 0)>>,
   <<Num(100, 0), Num(95, 0), Num(90, 0), Num(85, 0), Num(80, 0)>>,
   <<Num(110, 0), Num(100, 0), Num(100, 0), Num(60, 0), Num(333, -1)>>,
   <<Zero, Zero, Num(10, 0), Zero, Zero>>}
GuessInputs ==
  {[fitType |-> t, config |-> DDRConfig,
    sortedPoints |-> Array([i \in 1..n |-> Pt(c[i], v[i])])] :
     t \in FitTypes, n \in 1..5, c \in GuessConcentrations, v \in GuessViabilities}

guessCall ==
  /\ Pending("computeGrittyGuess")
  /\ Return(guessOutcome_(call.in))
  /\ UNCHANGED appVars

InitGuess ==
  /\ AppInit
  /\ call \in Ready("computeGrittyGuess", GuessInputs)
NextGuess == guessCall
SpecGuess == InitGuess /\ [][NextGuess]_vars

\* the smallest and the largest concentration of a sorted dataset
minConcentration(pts) == pts[1].concentration
maxConcentration(pts) == pts[Len(pts)].concentration

\* the statement of C30 about a guess for the points pts, the range of the
\* concentrations being raised to floor where it lies below, and the ec50 of
\* the monophasic guess being allowed to leave it by the relative amount slack
GuessInRange(type, pts, guess, slack, floor) ==
  /\ Ge(guess[2], Zero) /\ Le(guess[2], Num(9, -1))
  /\ type # "biphasic"
       => /\ Ge(guess[3], Mul(MathMax(floor, minConcentration(pts)), Sub(One, slack)))
          /\ Le(guess[3], Mul(MathMax(floor, maxConcentration(pts)), Add(One, slack)))
  /\ type = "biphasic"
       => /\ Le(guess[3], guess[6])
          /\ guess[5] = Add(guess[2], Num(5, -2))
          /\ Le(guess[5], Num(95, -2))

\* the relative error that the rounding of log10, of the interpolation or the
\* mean, and of pow adds up to in the three digits of the modelled arithmetic
RoundingSlack == Num(5, -2)

MaxLegacyPoints == 6

\* the values entered into the minPointsForFit input
MinPointsChoices == {3, 5, 7}

\* handleCanvasClick: push, then fitCurve()
handleCanvasClick ==
  /\ Len(legacy.dataPoints) < MaxLegacyPoints
  /\ \E click \in Clicks(Len(legacy.dataPoints)) : legacy' = legacyPushed_(legacy, click)
  /\ UNCHANGED <<dataPoints, fittedCurve, fitType, algorithm, metrics, call>>

\* the click listener of fitTypeToggle
fitTypeToggleClick ==
  /\ legacy' = legacyFitCurve_([legacy EXCEPT !.fitType = IF @ = "monophasic" THEN "biphasic"
                                                          ELSE "monophasic"])
  /\ UNCHANGED <<dataPoints, fittedCurve, fitType, algorithm, metrics, call>>

\* the change listener of algorithmSelect
algorithmSelectChange ==
  /\ \E value \in {"hill", "huber"} \ {legacy.algorithm} :
       legacy' = legacyFitCurve_([legacy EXCEPT !.algorithm = value])
  /\ UNCHANGED <<dataPoints, fittedCurve, fitType, algorithm, metrics, call>>

\* the change listener of the input minPointsForFit
minPointsForFitChange ==
  /\ \E value \in MinPointsChoices \ {legacy.advancedConfig.minPointsForFit} :
       legacy' = legacyFitCurve_([legacy EXCEPT !.advancedConfig.minPointsForFit = value])
  /\ UNCHANGED <<dataPoints, fittedCurve, fitType, algorithm, metrics, call>>

\* reset of the class
legacyReset ==
  /\ legacy' = [legacy EXCEPT !.dataPoints = <<>>, !.fittedCurve = NullCurve,
                              !.metrics = MetricsOfNothing, !.cachedFits = NoFits,
                              !.dataPointsHash = NoHash]
  /\ UNCHANGED <<dataPoints, fittedCurve, fitType, algorithm, metrics, call>>

\* clicks, fit type toggles and resets
NextLegacy == handleCanvasClick \/ fitTypeToggleClick \/ legacyReset
SpecLegacy == Init /\ [][NextLegacy]_vars

\* the same with the algorithm selector and the advanced configuration
NextLegacyConfig ==
  handleCanvasClick \/ fitTypeToggleClick \/ algorithmSelectChange \/ minPointsForFitChange
    \/ legacyReset
SpecLegacyConfig == Init /\ [][NextLegacyConfig]_vars

\* C25: in every state reached by clicks and fit type toggles, the fitted
\* curve that fitCurve installed, a cached one included, is the fit of exactly
\* the current data points for the current fit type.
CexC25 ==
  legacy.fittedCurve # NullCurve => legacy.fittedCurve = legacyFreshCurve_(legacy)

\* C26: a step that changes the algorithm while at least minPointsForFit
\* points are present leaves as fittedCurve the result of optimising the
\* objective of the newly selected algorithm on the current data.
CexC26 ==
  [][(/\ legacy'.algorithm # legacy.algorithm
      /\ Len(legacy'.dataPoints) >= legacy'.advancedConfig.minPointsForFit)
       => legacy'.fittedCurve = legacyFreshCurve_(legacy')]_vars

\* C27: with fewer points than minPointsForFit the fitted curve and the three
\* metrics are null, and with a fitted curve the metrics are those computed
\* for that curve and the current points, none left null by the skipped
\* computation.
CexC27 ==
  /\ Len(legacy.dataPoints) < legacy.advancedConfig.minPointsForFit
       => legacy.fittedCurve = NullCurve /\ legacy.metrics = MetricsOfNothing
  /\ legacy.fittedCurve # NullCurve
       => /\ legacy.metrics.rSquared = legacyRSquared(legacy.dataPoints, legacy.fittedCurve)
          /\ legacy.metrics.auc = legacyAUC(legacy.dataPoints)

(***************************************************************************)
(* Round trip: fit of noise-free monophasic data                           *)
(***************************************************************************)
\* known in-bounds parameters [hs, eInf, ec50] and five or six distinct
\* concentrations
RoundTripParams ==
  {<<hs, eInf, ec50>> : hs \in {One, Num(15, -1), Two, Num(3, 0)},
                        eInf \in {Zero, Num(1, -1), Num(2, -1)},
                        ec50 \in {Num(1, -1), One, Num(10, 0)}}
    \cup {<<hs, Num(5, -1), Num(10, 0)>> : hs \in {One, Num(15, -1), Two, Num(3, 0)}}
RoundTripConcentrations ==
  {<<Num(1, -2), Num(1, -1), One, Num(10, 0), Num(100, 0)>>,
   <<Num(1, -2), Num(1, -1), Num(3, -1), One, Num(10, 0), Num(100, 0)>>}
\* DDRConfig with the finite-difference step scaled to the three digits of
\* the modelled arithmetic; the mesh is the program's and is evaluated whole
RoundTripConfig == [DDRConfig EXCEPT !.optimizer.gdEps = Num(1, -2)]
RoundTripInputs ==
  {[params |-> p, concentrations |-> c, algo |-> a, config |-> RoundTripConfig, rnd |-> r] :
     p \in RoundTripParams, c \in RoundTripConcentrations, a \in Algorithms,
     r \in randomIndices("monophasic", RoundTripConfig)}

roundTripCall ==
  /\ Pending("roundTrip")
  /\ Return(roundTripOutcome_(call.in))
  /\ UNCHANGED appVars

InitRoundTrip == AppInit /\ call \in Ready("roundTrip", RoundTripInputs)
NextRoundTrip == roundTripCall
SpecRoundTrip == InitRoundTrip /\ [][NextRoundTrip]_vars

\* C21: the fit of noise-free monophasic data generated from known in-bounds
\* parameters at five or more distinct concentrations has an R^2 of at least
\* 0.999; stated here with 0.9 in place of 0.999, a slack in favour of the
\* claim far beyond the rounding of the three-digit arithmetic.
CexC21 == Done("roundTrip") => Ge(call.out.rSquared, Num(9, -1))

(***************************************************************************)
(* The runs of fitCase1Strategy, pass by pass                              *)
(***************************************************************************)
\* configurations of the caps and of the end of patternSearch: the defaults,
\* low caps on the iterations and the backtracking steps, a tolerance that
\* sends every run to the mesh, and values of mesh.precision
PassCaps == {<<200, 10>>, <<2, 10>>, <<200, 2>>, <<1, 1>>}
PassPrecisions == {Num(1, -4), Zero, Num(3, -1)}
PassConfigs ==
  {[AppConfig EXCEPT !.optimizer.maxGDIter = caps[1],
                     !.optimizer.gdBacktrackingMax = caps[2],
                     !.optimizer.improvementTol = tol,
                     !.mesh.precision = precision] :
     caps \in PassCaps, tol \in {Num(1, -6), Num(9, -1)}, precision \in PassPrecisions}
  \cup {[AppConfig EXCEPT !.mesh.precision = Neg(One)]}
PassInputs ==
  UNION {{[fitType |-> t, sortedPoints |-> d, algo |-> a, config |-> c,
           rnd |-> drawsFor(t, c)[1]] :
            t \in FitTypes, d \in {ScenarioPoints, FlatPoints}, a \in {"huber"}} :
         c \in PassConfigs}

Running(pc) == call.op = "fitCase1Strategy" /\ call.pc = pc
Passed(run) == call' = [call EXCEPT !.pc = run.pc, !.out = run]

\* the guess and the start of projectedGradDescent
strategyStart ==
  /\ Running("ready")
  /\ Passed(case1Pass_(call.in, call.out))
  /\ UNCHANGED appVars

\* the head of one iteration of the for-loop of projectedGradDescent
descentPass ==
  /\ Running("descent")
  /\ Passed(case1Pass_(call.in, call.out))
  /\ UNCHANGED appVars

\* one pass of the backtracking while-loop
backtrackPass ==
  /\ Running("backtrack")
  /\ Passed(case1Pass_(call.in, call.out))
  /\ UNCHANGED appVars

\* the choice between the gradient result and the mesh
strategyChoice ==
  /\ Running("choose")
  /\ Passed(case1Pass_(call.in, call.out))
  /\ UNCHANGED appVars

\* one pass of the while-loop of patternSearch
patternSearchPass ==
  /\ Running("pattern")
  /\ Passed(case1Pass_(call.in, call.out))
  /\ UNCHANGED appVars

InitPasses ==
  /\ AppInit
  /\ call \in {[op |-> "fitCase1Strategy", pc |-> "ready", in |-> i, out |-> [pc |-> "ready"]] :
                 i \in PassInputs}
NextPasses ==
  strategyStart \/ descentPass \/ backtrackPass \/ strategyChoice \/ patternSearchPass
SpecPasses == InitPasses /\ [][NextPasses]_vars

\* the caps of projectedGradDescent in a run: accepted iterations and
\* backtracking steps of the current line search
WithinCaps ==
  call.pc \in {"descent", "backtrack", "choose", "pattern", "done"}
    => /\ call.out.gd.k <= MinI(400, call.in.config.optimizer.maxGDIter)
       /\ call.pc = "backtrack"
            => call.out.ls.bt <= call.in.config.optimizer.gdBacktrackingMax

\* a pass of the for-loop of projectedGradDescent starts a line search at the
\* same point or ends the loop
DescentAdvances ==
  call.pc = "descent" =>
    \/ call'.pc = "backtrack" /\ call'.out.ls.bt = 0 /\ call'.out.gd = call.out.gd
    \/ call'.pc = "choose" /\ call'.out.gd = call.out.gd

\* a pass of the backtracking loop takes one more backtracking step, or ends
\* the line search with one more accepted iteration or with the end of the
\* for-loop
BacktrackAdvances ==
  call.pc = "backtrack" =>
    \/ call'.pc = "backtrack" /\ call'.out.ls.bt = call.out.ls.bt + 1
    \/ call'.pc = "descent" /\ call'.out.gd.k = call.out.gd.k + 1
    \/ call'.pc = "choose" /\ call'.out.gd.k = call.out.gd.k

\* a pass of the while-loop of patternSearch strictly lowers the objective at
\* the same span, or halves span to a smaller one at the same guess, or ends
\* the loop with span <= precision
SweepLowersOrHalves ==
  call.pc = "pattern" =>
    \/ /\ call'.pc = "pattern"
       /\ Lt(call'.out.ps.guessVal, call.out.ps.guessVal)
       /\ call'.out.ps.span = call.out.ps.span
    \/ /\ call'.pc = "pattern"
       /\ call'.out.ps.guess = call.out.ps.guess
       /\ call'.out.ps.span = Mul(call.out.ps.span, Half)
       /\ Lt(call'.out.ps.span, call.out.ps.span)
    \/ /\ call'.pc = "done"
       /\ ~Gt(call.out.ps.span, call.out.psEnv.precision)
       /\ call'.out.result = call.out.ps.guess

\* every pass of a run that has not returned changes the run: no loop of
\* fitCase1Strategy repeats a pass on the same values
PassAdvances == call.pc # "done" => case1Pass_(call.in, call.out) # call.out

\* mesh.precision as patternSearch reads it is positive
PrecisionPositive == Gt(OrElse(call.in.config.mesh.precision, Num(1, -4)), Zero)

\* C24 as stated: every run of fitCase1Strategy runs to completion, whatever
\* the finite data set and configuration: no pass of its loops leaves the
\* run as it found it, gradient descent stays within min(400, maxGDIter)
\* iterations and gdBacktrackingMax backtracking steps, and every sweep of
\* patternSearch strictly lowers the objective or halves span
CexC24 ==
  /\ []PassAdvances
  /\ []WithinCaps
  /\ [][DescentAdvances /\ BacktrackAdvances /\ SweepLowersOrHalves]_vars

\* the same holds of the runs whose configuration has a positive
\* mesh.precision: the pass that repeats itself needs span > precision at
\* span = 0
PositivePrecisionRuns ==
  /\ [](PrecisionPositive => PassAdvances)
  /\ []WithinCaps
  /\ [][PrecisionPositive => DescentAdvances /\ BacktrackAdvances /\ SweepLowersOrHalves]_vars
====
